---- MODULE Spec2Model ----
(***************************************************************************)
(* A model of the k8s handler library: the namespace handler's watch loop, *)
(* the clusterrole / persistentvolume Patch dispatch, the input-shape      *)
(* dispatch of Delete / Get / Update / Create, and the handler's           *)
(* DeepCopy / WithNamespace / setter family.                               *)
(***************************************************************************)
EXTENDS Integers, Sequences, FiniteSets, TLC

(* ---------------------------------------------------------------------- *)
(* Bounds of the model                                                     *)
(* ---------------------------------------------------------------------- *)
\* events the API server sends over the whole run
MaxEvents == 3
\* times the API server closes a watch channel
MaxCloses == 2
\* handlers that can be allocated (New + DeepCopy)
MaxHandlers == 2
\* setter calls over the whole run
MaxSetterCalls == 3
\* goroutines that call setters on the same handler
MaxGoroutines == 2

VARIABLES
    \* --- namespace watch (src/unnamed/part_004) ---
    wpc,        \* position of the goroutine: "idle", "open", "recv", "returned"
    entry,      \* the exported method the caller used
    listOptions,\* metav1.ListOptions handed to watchNamespace
    fns,        \* the callbacks watchNamespace received, by parameter name
    chan,       \* events buffered in the current watcher's ResultChan
    closed,     \* the current ResultChan is closed by the server
    watchLog,   \* ListOptions of every Namespaces().Watch call made
    sent,       \* every event the server has sent, in order
    closes,     \* number of channels the server has closed
    calls,      \* callback invocations made, in order
    retErr,     \* the error the exported method returned
    openErr,    \* the error the last Namespaces().Watch call returned
    \* --- Patch (src/clusterrole/patch.go, src/persistentvolume/patch.go) ---
    pCall,      \* the arguments of the last Patch call
    pReqs,      \* the patch requests that call sent to the API server
    pReads,     \* the files that call read
    pRet,       \* what that call returned
    \* --- Delete / Get / Update / Create of the typed and dynamic handlers ---
    rCall,      \* the handler, method and argument of the last call
    rApi,       \* the API calls that call made, in order
    rReads,     \* the files that call read
    rRet,       \* the error that call returned
    rSdk,       \* what the SDK calls of that call returned, in order
    rObj,       \* the object that call returned beside the error
    rPolicy,    \* the handler's delete PropagationPolicy before and after
    \* --- Handler: New, DeepCopy, WithNamespace, WithDryRun, setters ---
    hs,         \* the Handler objects allocated so far, by address
    os,         \* the HandlerOptions objects allocated so far, by address
    op,         \* the last method called: its name, receiver and result
    \* --- New: the choice of the cluster configuration ---
    kubeconfigEnv, \* the value of the KUBECONFIG environment variable
    files,      \* the kubeconfig files that exist
    inCluster,  \* the process runs in a pod (service account is mounted)
    nCall,      \* the package and arguments of the last New call
    nRet,       \* what that call chose, read and returned
    \* --- goroutines calling setters on one handler of each package ---
    mu,         \* per handler, the goroutine that holds its mutex, or 0
    gcall,      \* per goroutine, the setter it is in
    gpc,        \* per goroutine, the next statement of that setter
    gw,         \* the last write a setter made to a handler field
    \* --- RunInformer of the job and rolebinding handlers ---
    ipc,        \* per handler, the position of the RunInformer call
    stopCh,     \* per handler, the caller's stop channel: "open" / "closed"
    informer,   \* per handler, the shared informer's goroutine
    ifns,       \* per handler, the registered ResourceEventHandlerFuncs
    icb,        \* per handler, the callbacks invoked so far, by kind
    \* --- Apply of the clusterrole handler ---
    aCall,      \* the argument of the last Apply call and the server's state
    aApi,       \* the SDK calls that call made, in order, with their results
    aRet        \* the (object, error) pair that call returned

watchVars == <<wpc, entry, listOptions, fns, chan, closed, watchLog, sent,
               closes, calls, retErr, openErr>>

patchVars == <<pCall, pReqs, pReads, pRet>>

reqVars == <<rCall, rApi, rReads, rRet, rSdk, rObj, rPolicy>>

handlerVars == <<hs, os, op>>

configVars == <<kubeconfigEnv, files, inCluster, nCall, nRet>>

lockVars == <<mu, gcall, gpc, gw>>

informerVars == <<ipc, stopCh, informer, ifns, icb>>

applyVars == <<aCall, aApi, aRet>>

vars == <<watchVars, patchVars, reqVars, handlerVars, configVars, lockVars,
          informerVars, applyVars>>

\* what the watch loop leaves alone
notWatch == <<patchVars, reqVars, handlerVars, configVars, lockVars, informerVars,
       applyVars>>
\* what a Patch call leaves alone
notPatch == <<watchVars, reqVars, handlerVars, configVars, lockVars, informerVars,
       applyVars>>
\* what a Delete / Get / Update / Create call leaves alone
notReq == <<watchVars, patchVars, handlerVars, configVars, lockVars, informerVars,
       applyVars>>
\* what the handler's constructors and setters leave alone
notHandler == <<watchVars, patchVars, reqVars, configVars, lockVars, informerVars,
       applyVars>>
\* what a New call leaves alone
notConfig == <<watchVars, patchVars, reqVars, handlerVars, lockVars, informerVars,
       applyVars>>
\* what a goroutine in a setter leaves alone
notLock == <<watchVars, patchVars, reqVars, handlerVars, configVars,
             informerVars, applyVars>>
\* what RunInformer and the informer leave alone
notInformer == <<watchVars, patchVars, reqVars, handlerVars, configVars,
                 lockVars, applyVars>>
\* what an Apply call leaves alone
notApply == <<watchVars, patchVars, reqVars, handlerVars, configVars,
              lockVars, informerVars>>

(* ---------------------------------------------------------------------- *)
(* Namespace handler: Watch, WatchByName, WatchByLabel, WatchByField       *)
(* ---------------------------------------------------------------------- *)
Events == [type : {"ADDED", "MODIFIED", "DELETED", "BOOKMARK", "ERROR"},
           obj : {"o1", "o2"}]
WatchErrors == {"errForbidden", "errTimeout"}
\* field selectors a caller can pass: the second one does not parse
FieldInputs == {"status.phase==Active", "phase"}

NoOptions == [label |-> "", field |-> "", timeout |-> "nil"]
NoFns == [addFunc |-> "none", modifyFunc |-> "none", deleteFunc |-> "none"]

\* fields.ParseSelector followed by Selector.String(): "==" is printed as "="
ParseSelector(field) ==
    IF field = "status.phase==Active"
       THEN [err |-> "nil", str |-> "status.phase=Active"]
       ELSE [err |-> "errInvalidSelector", str |-> ""]

\* the caller's three functions, named by the position the exported
\* signature (addFunc, modifyFunc, deleteFunc) gives them
CallerFns == [addFunc |-> "addFunc", modifyFunc |-> "modifyFunc",
              deleteFunc |-> "deleteFunc"]

\* watchNamespace(listOptions, addFunc, modifyFunc, deleteFunc): entry of the loop
watchNamespace(e, opts, a, m, d) ==
    /\ entry' = e
    /\ listOptions' = opts
    /\ fns' = [addFunc |-> a, modifyFunc |-> m, deleteFunc |-> d]
    /\ wpc' = "open"
    /\ UNCHANGED notWatch
    /\ UNCHANGED <<chan, closed, watchLog, sent, closes, calls, retErr, openErr>>

\* WatchByLabel(labels, addFunc, modifyFunc, deleteFunc)
WatchByLabel(e, labels, a, m, d) ==
    watchNamespace(e, [label |-> labels, field |-> "", timeout |-> 0], a, m, d)

\* Watch(addFunc, modifyFunc, deleteFunc):
\*   return h.WatchByLabel("", addFunc, deleteFunc, modifyFunc)
Watch ==
    /\ wpc = "idle"
    /\ WatchByLabel("Watch", "", CallerFns.addFunc, CallerFns.deleteFunc,
                    CallerFns.modifyFunc)

CallWatchByLabel ==
    /\ wpc = "idle"
    /\ \E l \in {"app=web"} :
         WatchByLabel("WatchByLabel", l, CallerFns.addFunc,
                      CallerFns.modifyFunc, CallerFns.deleteFunc)

\* metav1.SingleObject: the field selector that selects one object by name
SingleObject(name) ==
    IF name = "ns1" THEN "metadata.name=ns1" ELSE "metadata.name=ns2"

\* WatchByName(name, addFunc, modifyFunc, deleteFunc)
WatchByName ==
    /\ wpc = "idle"
    /\ \E n \in {"ns1", "ns2"} :
         watchNamespace("WatchByName",
                        [label |-> "", field |-> SingleObject(n), timeout |-> 0],
                        CallerFns.addFunc, CallerFns.modifyFunc, CallerFns.deleteFunc)

WatchByField ==
    /\ wpc = "idle"
    /\ \E f \in FieldInputs :
         LET p == ParseSelector(f) IN
         IF p.err # "nil"
            THEN /\ wpc' = "returned"
                 /\ entry' = "WatchByField"
                 /\ retErr' = p.err
                 /\ UNCHANGED notWatch
                 /\ UNCHANGED <<listOptions, fns, chan, closed, watchLog, sent,
                                closes, calls, openErr>>
            ELSE watchNamespace("WatchByField",
                                [label |-> "", field |-> p.str, timeout |-> 0],
                                CallerFns.addFunc, CallerFns.modifyFunc,
                                CallerFns.deleteFunc)

\* line 87: watcher, err = Namespaces().Watch(h.ctx, listOptions); on error return it
OpenWatchFails ==
    /\ wpc = "open"
    /\ \E e \in WatchErrors :
         /\ openErr' = e
         /\ retErr' = e
    /\ watchLog' = Append(watchLog, listOptions)
    /\ wpc' = "returned"
    /\ UNCHANGED notWatch
    /\ UNCHANGED <<entry, listOptions, fns, chan, closed, sent, closes, calls>>

OpenWatchOk ==
    /\ wpc = "open"
    /\ openErr' = "nil"
    /\ watchLog' = Append(watchLog, listOptions)
    /\ chan' = <<>>
    /\ closed' = FALSE
    /\ wpc' = "recv"
    /\ UNCHANGED notWatch
    /\ UNCHANGED <<entry, listOptions, fns, sent, closes, calls, retErr>>

\* the API server puts an event on the open channel
ServerSend ==
    /\ wpc = "recv"
    /\ ~closed
    /\ Len(sent) < MaxEvents
    /\ \E ev \in Events :
         /\ chan' = Append(chan, ev)
         /\ sent' = Append(sent, ev)
    /\ UNCHANGED notWatch
    /\ UNCHANGED <<wpc, entry, listOptions, fns, closed, watchLog, closes, calls,
                   retErr, openErr>>

\* the API server closes the connection
ServerClose ==
    /\ wpc = "recv"
    /\ ~closed
    /\ closes < MaxCloses
    /\ closed' = TRUE
    /\ closes' = closes + 1
    /\ UNCHANGED notWatch
    /\ UNCHANGED <<wpc, entry, listOptions, fns, chan, watchLog, sent, calls,
                   retErr, openErr>>

\* a faulty variant of Dispatch: a bookmark is handed to modifyFunc
DispatchBookmark(ev, f) ==
    CASE ev.type = "ADDED"    -> << [fn |-> f.addFunc, obj |-> ev.obj] >>
      [] ev.type = "MODIFIED" -> << [fn |-> f.modifyFunc, obj |-> ev.obj] >>
      [] ev.type = "DELETED"  -> << [fn |-> f.deleteFunc, obj |-> ev.obj] >>
      [] ev.type = "BOOKMARK" -> << [fn |-> f.modifyFunc, obj |-> ev.obj] >>
      [] OTHER                -> << >>

\* lines 95-106: the switch on event.Type; the calls it makes
Dispatch(ev, f) ==
    CASE ev.type = "ADDED"    -> << [fn |-> f.addFunc, obj |-> ev.obj] >>
      [] ev.type = "MODIFIED" -> << [fn |-> f.modifyFunc, obj |-> ev.obj] >>
      [] ev.type = "DELETED"  -> << [fn |-> f.deleteFunc, obj |-> ev.obj] >>
      [] ev.type = "BOOKMARK" -> << >>
      [] OTHER                -> << >>

\* line 94: one iteration of "for event := range watcher.ResultChan()"
Recv ==
    /\ wpc = "recv"
    /\ chan # <<>>
    /\ calls' = calls \o Dispatch(Head(chan), fns)
    /\ chan' = Tail(chan)
    /\ UNCHANGED notWatch
    /\ UNCHANGED <<wpc, entry, listOptions, fns, closed, watchLog, sent, closes,
                   retErr, openErr>>

\* a faulty variant of Reconnect: the loop gives up when the channel closes
ReconnectGivesUp ==
    /\ wpc = "recv"
    /\ chan = <<>>
    /\ closed
    /\ wpc' = "returned"
    /\ retErr' = "nil"
    /\ UNCHANGED notWatch
    /\ UNCHANGED <<entry, listOptions, fns, chan, closed, watchLog, sent, closes,
                   calls, openErr>>

\* lines 107-111: the range loop ends on a drained closed channel;
\* watcher.Stop() and back to the top of the for loop
Reconnect ==
    /\ wpc = "recv"
    /\ chan = <<>>
    /\ closed
    /\ wpc' = "open"
    /\ UNCHANGED notWatch
    /\ UNCHANGED <<entry, listOptions, fns, chan, closed, watchLog, sent, closes,
                   calls, retErr, openErr>>

(* ---------------------------------------------------------------------- *)
(* clusterrole and persistentvolume handlers: Patch                        *)
(* The two patch.go files are the same text but for the resource type and  *)
(* for line 133 (the patch type jsonMergePatch submits).                   *)
(* ---------------------------------------------------------------------- *)
PatchHandlers == {"clusterrole", "persistentvolume"}
\* the variadic patchOptions: none, one, or two (only the first is read)
PatchOptionSeqs ==
    {<<>>} \cup {<<t>> : t \in {"JSONPatchType", "MergePatchType",
                                    "StrategicMergePatchType",
                                    "ApplyPatchType"}}
           \cup {<<"MergePatchType", "JSONPatchType">>}

\* documents, by their text; "a: b: c" is not YAML
YamlDocs == {"", "{}", "rules: r2", "{rules:r2}", "- op: replace", "a: b: c"}
\* the file system: path -> content, "missing.yaml" does not exist;
\* "web.yaml" holds a resource manifest
Paths == {"patch.yaml", "braces.json", "missing.yaml"}
ReadFile(path) ==
    CASE path = "patch.yaml"  -> [err |-> "nil", data |-> "rules: r2"]
      [] path = "braces.json" -> [err |-> "nil", data |-> "{}"]
      [] path = "web.yaml"    -> [err |-> "nil", data |-> "name: web"]
      [] OTHER                -> [err |-> "errNotExist", data |-> ""]

\* yaml.ToJSON: a document that starts with "{" is JSON already and is
\* returned as it is; any other is parsed as YAML and printed as JSON (the
\* empty document is the YAML null)
ToJSON(data) ==
    CASE data = ""              -> [err |-> "nil", json |-> "null"]
      [] data = "{}"            -> [err |-> "nil", json |-> "{}"]
      [] data = "rules: r2"     -> [err |-> "nil", json |-> "{rules:r2}"]
      [] data = "{rules:r2}"    -> [err |-> "nil", json |-> "{rules:r2}"]
      [] data = "- op: replace" -> [err |-> "nil", json |-> "[{op:replace}]"]
      [] data = "name: web"     -> [err |-> "nil", json |-> "{name:web}"]
      [] data = "{name:web,namespace:ns2}"
                                -> [err |-> "nil", json |-> "{name:web,namespace:ns2}"]
      [] data = "- web"         -> [err |-> "nil", json |-> "[web]"]
      [] OTHER                  -> [err |-> "errYAML", json |-> ""]

\* the typed resource: its name and the part of it a patch changes
ResourceNames == {"res1", "res2"}
Resources == [name : ResourceNames, rules : {"r1", "r2"}]
NilObj == [name |-> "", rules |-> ""]

\* strategicpatch.CreateTwoWayMergePatch of the two JSON encodings
CreateTwoWayMergePatch(original, modified) ==
    IF original = modified THEN "{}"
    ELSE IF original.rules = modified.rules THEN "{name:changed}"
    ELSE IF modified.rules = "r1" THEN "{rules:r1}" ELSE "{rules:r2}"

\* what the API server answers to a patch request
PatchAnswers == {[obj |-> "patched", err |-> "nil"],
                 [obj |-> "nil", err |-> "errConflict"]}

\* One request Patch(h.ctx, name, ptype, data, h.Options.PatchOptions) and
\* its answer
SubmitPatch(h, name, ptype, data, po, srv) ==
    [reqs |-> << [resource |-> h, name |-> name, ptype |-> ptype,
                  data |-> data, options |-> po] >>,
     obj |-> srv.obj, err |-> srv.err]

\* a return without a request
ReturnOnly(obj, err) == [reqs |-> << >>, obj |-> obj, err |-> err]

\* a faulty variant of strategicMergePatch: the empty patch is submitted too
strategicMergePatchAlways(h, original, patchData, po, srv) ==
    SubmitPatch(h, original.name, "StrategicMergePatchType", patchData, po, srv)

\* lines 110-116
strategicMergePatch(h, original, patchData, po, srv) ==
    IF Len(patchData) = 0 \/ patchData = "{}"
       THEN ReturnOnly("original", "nil")
       ELSE SubmitPatch(h, original.name, "StrategicMergePatchType", patchData,
                        po, srv)

\* line 133 of clusterrole/patch.go
clusterrole_jsonMergePatchType == "MergePatchType"
\* line 133 of persistentvolume/patch.go
persistentvolume_jsonMergePatchType == "StrategicMergePatchType"

\* lines 128-134
jsonMergePatch(h, original, patchData, po, srv) ==
    IF Len(patchData) = 0 \/ patchData = "{}"
       THEN ReturnOnly("original", "nil")
       ELSE SubmitPatch(h, original.name,
                        IF h = "clusterrole"
                           THEN clusterrole_jsonMergePatchType
                           ELSE persistentvolume_jsonMergePatchType,
                        patchData, po, srv)

\* lines 143-146
jsonPatch(h, original, patchData, po, srv) ==
    SubmitPatch(h, original.name, "JSONPatchType", patchData, po, srv)

\* a faulty variant of diffMergePatch: the option is ignored
diffMergePatchStrategicOnly(h, original, modified, patchOptions, po, srv) ==
    LET patchData == CreateTwoWayMergePatch(original, modified) IN
    IF Len(patchData) = 0 \/ patchData = "{}"
       THEN ReturnOnly("original", "nil")
       ELSE SubmitPatch(h, original.name, "StrategicMergePatchType", patchData,
                        po, srv)

\* lines 152-179
diffMergePatch(h, original, modified, patchOptions, po, srv) ==
    LET patchData == CreateTwoWayMergePatch(original, modified) IN
    IF Len(patchData) = 0 \/ patchData = "{}"
       THEN ReturnOnly("original", "nil")
       ELSE IF Len(patchOptions) # 0 /\ patchOptions[1] = "MergePatchType"
               THEN SubmitPatch(h, original.name, "MergePatchType", patchData,
                                po, srv)
               ELSE SubmitPatch(h, original.name, "StrategicMergePatchType",
                                patchData, po, srv)

\* lines 36-42 and 51-57: the dispatch on the first patch option
PatchJSONData(h, original, jsonData, patchOptions, po, srv) ==
    IF Len(patchOptions) # 0 /\ patchOptions[1] = "JSONPatchType"
       THEN jsonPatch(h, original, jsonData, po, srv)
       ELSE IF Len(patchOptions) # 0 /\ patchOptions[1] = "MergePatchType"
               THEN jsonMergePatch(h, original, jsonData, po, srv)
               ELSE strategicMergePatch(h, original, jsonData, po, srv)

\* The dynamic types a caller can pass as the patch.  A runtime.Object that
\* holds a pointer to the handler's own type has the dynamic type "ptr";
\* "otherObject" is a runtime.Object of another kind, "other" any other type.
ByteShapes == {"string", "bytes"}
TypedShapes == {"ptr", "value"}
UnstructuredShapes == {"map", "unstructuredPtr", "unstructured"}
ObjectShapes == TypedShapes \cup UnstructuredShapes
PatchInputs ==
    [shape : {"string"}, path : Paths, data : {""}, obj : {NilObj}, conv : {TRUE}]
    \cup [shape : {"bytes"}, path : {""}, data : YamlDocs, obj : {NilObj},
          conv : {TRUE}]
    \cup [shape : TypedShapes, path : {""}, data : {""}, obj : Resources,
          conv : {TRUE}]
    \cup [shape : UnstructuredShapes, path : {""}, data : {""}, obj : Resources,
          conv : BOOLEAN]
    \cup [shape : {"otherObject", "other"}, path : {""}, data : {""},
          obj : {NilObj}, conv : {TRUE}]

\* lines 23-96: Patch(original, patch, patchOptions...)
PatchOutcome(h, original, in, patchOptions, po, srv) ==
    CASE in.shape = "string" ->
           LET f == ReadFile(in.path) IN
           IF f.err # "nil" THEN ReturnOnly("nil", f.err)
           ELSE LET j == ToJSON(f.data) IN
                IF j.err # "nil" THEN ReturnOnly("nil", j.err)
                ELSE PatchJSONData(h, original, j.json, patchOptions, po, srv)
      [] in.shape = "bytes" ->
           LET j == ToJSON(in.data) IN
           IF j.err # "nil" THEN ReturnOnly("nil", j.err)
           ELSE PatchJSONData(h, original, j.json, patchOptions, po, srv)
      [] in.shape \in TypedShapes ->
           diffMergePatch(h, original, in.obj, patchOptions, po, srv)
      [] in.shape \in UnstructuredShapes ->
           IF ~in.conv THEN ReturnOnly("nil", "errFromUnstructured")
           ELSE diffMergePatch(h, original, in.obj, patchOptions, po, srv)
      [] in.shape = "otherObject" -> ReturnOnly("nil", "errNotHandlerType")
      [] OTHER -> ReturnOnly("nil", "ErrInvalidPathType")

\* the handler's Options.PatchOptions
PatchOptionValues == {[dryRun |-> "nil"], [dryRun |-> "All"]}
Originals == [name : ResourceNames, rules : {"r1"}]

NoPatchCall ==
    [handler |-> "none", original |-> NilObj,
     in |-> [shape |-> "none", path |-> "", data |-> "", obj |-> NilObj,
             conv |-> TRUE],
     patchOptions |-> << >>, po |-> [dryRun |-> "nil"]]

\* one Patch call of handler h, from entry to return
DoPatch(h, original, in, patchOptions, po, srv) ==
    LET out == PatchOutcome(h, original, in, patchOptions, po, srv) IN
    /\ pCall' = [handler |-> h, original |-> original, in |-> in,
                 patchOptions |-> patchOptions, po |-> po]
    /\ pReqs' = out.reqs
    /\ pReads' = IF in.shape = "string" THEN {in.path} ELSE {}
    /\ pRet' = [obj |-> out.obj, err |-> out.err]

ClusterRolePatch ==
    /\ pCall = NoPatchCall
    /\ \E original \in Originals, in \in PatchInputs,
          patchOptions \in PatchOptionSeqs, po \in PatchOptionValues,
          srv \in PatchAnswers :
         DoPatch("clusterrole", original, in, patchOptions, po, srv)
    /\ UNCHANGED notPatch

PersistentVolumePatch ==
    /\ pCall = NoPatchCall
    /\ \E original \in Originals, in \in PatchInputs,
          patchOptions \in PatchOptionSeqs, po \in PatchOptionValues,
          srv \in PatchAnswers :
         DoPatch("persistentvolume", original, in, patchOptions, po, srv)
    /\ UNCHANGED notPatch

\* the caller has taken the result; the next call starts afresh
PatchDone ==
    /\ pCall # NoPatchCall
    /\ pCall' = NoPatchCall
    /\ pReqs' = << >>
    /\ pReads' = {}
    /\ pRet' = [obj |-> "nil", err |-> "nil"]
    /\ UNCHANGED notPatch

PatchInit ==
    /\ pCall = NoPatchCall
    /\ pReqs = << >>
    /\ pReads = {}
    /\ pRet = [obj |-> "nil", err |-> "nil"]

(* ---------------------------------------------------------------------- *)
(* Delete / Get / Update / Create: the switch on the argument's type, the  *)
(* normalisation to an object, and the one API call                        *)
(* ---------------------------------------------------------------------- *)
HandlerNamespaces == {"ns1", "ns2"}
\* strings a caller passes: "web.yaml" is a file that exists, and a string
\* that can be taken for a resource name as well
Strings == {"web", "web.yaml", "missing.yaml"}
\* manifests, by their text: "- web" is YAML but no object, "a: b: c" no YAML
\* and the empty document is the YAML null
ResourceDocs == {"name: web", "{name:web,namespace:ns2}", "- web", "a: b: c",
                 ""}

\* the object an SDK verb returns beside its error: nothing for Delete,
\* the server's copy of the object on success, an empty object on failure
SDKResult(call, srv) ==
    [err |-> srv,
     obj |-> IF call.verb = "delete" THEN "none"
             ELSE IF srv = "nil"
                     THEN [name |-> call.name, namespace |-> call.ns,
                           uid |-> "uid-srv"]
                     ELSE [name |-> "", namespace |-> "", uid |-> ""]]

\* a return before any SDK call: the error, and nil for the object
NoCallOut(reads, err) ==
    [api |-> << >>, sdk |-> << >>, reads |-> reads, obj |-> "nil", err |-> err]

\* a faulty variant of SdkCallOut: the SDK's error is logged, not returned
SdkCallOutNoError(call, reads, srv) ==
    [api |-> << call >>, sdk |-> << SDKResult(call, srv) >>, reads |-> reads,
     obj |-> SDKResult(call, srv).obj, err |-> "nil"]

\* "return h.clientset...Verb(h.ctx, ...)": one SDK call, whose result and
\* error are returned as they are
SdkCallOut(call, reads, srv) ==
    [api |-> << call >>, sdk |-> << SDKResult(call, srv) >>, reads |-> reads,
     obj |-> SDKResult(call, srv).obj, err |-> SDKResult(call, srv).err]
\* kinds the dynamic handler meets: namespaced, cluster-scoped, unknown
NamespacedKinds == {"Deployment", "Job"}
ClusterKinds == {"Namespace"}
DynKinds == NamespacedKinds \cup ClusterKinds \cup {"Unknown"}

ReqObjects == [name : {"web"}, namespace : {"", "ns1", "ns2"},
               kind : {"Deployment"}]
NilReqObj == [name |-> "", namespace |-> "", kind |-> ""]

\* json.Unmarshal of the JSON into the object; null leaves the object as
\* it was allocated, without a name, namespace or kind (the dynamic
\* handler's object without a kind is refused before any call: the model
\* reports that at the REST mapper's lookup)
Unmarshal(js) ==
    CASE js = "{name:web}" ->
           [err |-> "nil",
            obj |-> [name |-> "web", namespace |-> "", kind |-> "Deployment"]]
      [] js = "{name:web,namespace:ns2}" ->
           [err |-> "nil",
            obj |-> [name |-> "web", namespace |-> "ns2", kind |-> "Deployment"]]
      [] js = "null" -> [err |-> "nil", obj |-> NilReqObj]
      [] OTHER -> [err |-> "errUnmarshal", obj |-> NilReqObj]

\* the ...FromBytes body up to the object: yaml.ToJSON, then json.Unmarshal
Decode(data) ==
    LET j == ToJSON(data) IN
    IF j.err # "nil" THEN [err |-> j.err, obj |-> NilReqObj]
    ELSE Unmarshal(j.json)

\* The dynamic types of the argument.  "ptr" and "value" are the handler's
\* own typed object, "otherObject" a runtime.Object of another kind,
\* "unstructuredPtr" is a runtime.Object too (the value "unstructured" is
\* not), "other" is any other type.
ReqInputs ==
    [shape : {"string"}, str : Strings, data : {""}, obj : {NilReqObj},
     conv : {TRUE}]
    \cup [shape : {"bytes"}, str : {""}, data : ResourceDocs, obj : {NilReqObj},
          conv : {TRUE}]
    \cup [shape : {"ptr", "value"}, str : {""}, data : {""}, obj : ReqObjects,
          conv : {TRUE}]
    \cup [shape : {"unstructuredPtr", "unstructured", "map"}, str : {""},
          data : {""}, obj : ReqObjects, conv : BOOLEAN]
    \cup [shape : {"otherObject", "other"}, str : {""}, data : {""},
          obj : {NilReqObj}, conv : {TRUE}]
FileInputs ==
    [shape : {"string"}, str : Strings, data : {""}, obj : {NilReqObj},
     conv : {TRUE}]

\* what the API server answers to the call
ApiAnswers == {"nil", "errNotFound"}

\* the function the type switch of each method hands the argument to;
\* "WrongType" is ...FromObject given an object of another kind
\* node/delete.go lines 19-34
node_DeleteRoute(shape) ==
    CASE shape = "string" -> "ByName"
      [] shape = "bytes" -> "FromBytes"
      [] shape \in {"ptr", "value"} -> "FromObject"
      [] shape \in {"otherObject", "unstructuredPtr"} -> "WrongType"
      [] shape = "map" -> "FromUnstructured"
      [] OTHER -> "ErrType"

\* a faulty variant of rolebinding_DeleteRoute: a string is taken for a file path
rolebinding_DeleteRouteFile(shape) ==
    CASE shape = "string" -> "FromFile"
      [] shape = "bytes" -> "FromBytes"
      [] shape \in {"ptr", "value"} -> "FromObject"
      [] shape \in {"otherObject", "unstructuredPtr"} -> "WrongType"
      [] shape \in {"unstructured", "map"} -> "FromUnstructured"
      [] OTHER -> "ErrType"

\* rolebinding Delete, part_000 lines 21-40: case runtime.Object stands
\* before case *unstructured.Unstructured and takes that type too
rolebinding_DeleteRoute(shape) ==
    CASE shape = "string" -> "ByName"
      [] shape = "bytes" -> "FromBytes"
      [] shape \in {"ptr", "value"} -> "FromObject"
      [] shape \in {"otherObject", "unstructuredPtr"} -> "WrongType"
      [] shape \in {"unstructured", "map"} -> "FromUnstructured"
      [] OTHER -> "ErrType"

\* configmap Get (part_003 lines 19-32) and ingress Get (part_001 lines 82-95)
GetRoute(shape) ==
    CASE shape = "string" -> "ByName"
      [] shape = "bytes" -> "FromBytes"
      [] shape \in {"ptr", "value"} -> "FromObject"
      [] shape = "map" -> "FromUnstructured"
      [] OTHER -> "ErrType"

\* deployment Update (update.go lines 16-31) and persistentvolumeclaim
\* Create (create.go lines 16-31)
FileFirstRoute(shape) ==
    CASE shape = "string" -> "FromFile"
      [] shape = "bytes" -> "FromBytes"
      [] shape \in {"ptr", "value"} -> "FromObject"
      [] shape \in {"otherObject", "unstructuredPtr"} -> "WrongType"
      [] shape = "map" -> "FromUnstructured"
      [] OTHER -> "ErrType"

\* the ...FromFile / FromBytes / FromObject / FromUnstructured bodies up to
\* the object they hand to the final call
Normalize(route, in) ==
    CASE route = "FromFile" ->
           LET f == ReadFile(in.str) IN
           IF f.err # "nil"
              THEN [err |-> f.err, obj |-> NilReqObj, reads |-> {in.str}]
              ELSE [err |-> Decode(f.data).err, obj |-> Decode(f.data).obj,
                    reads |-> {in.str}]
      [] route = "FromBytes" ->
           [err |-> Decode(in.data).err, obj |-> Decode(in.data).obj, reads |-> {}]
      [] route = "FromObject" ->
           [err |-> "nil", obj |-> in.obj, reads |-> {}]
      [] route = "FromUnstructured" ->
           IF in.conv THEN [err |-> "nil", obj |-> in.obj, reads |-> {}]
           ELSE [err |-> "errFromUnstructured", obj |-> NilReqObj, reads |-> {}]
      [] route = "WrongType" ->
           [err |-> "errNotHandlerType", obj |-> NilReqObj, reads |-> {}]
      [] OTHER -> [err |-> "ERR_TYPE", obj |-> NilReqObj, reads |-> {}]

\* the namespace of the final call, e.g. deleteRolebinding lines 103-108,
\* updateDeployment lines 79-84, createPVC lines 79-84
TargetNamespace(objNamespace, hns) ==
    IF Len(objNamespace) # 0 THEN objNamespace ELSE hns

ApiCall(verb, resource, ns, name) ==
    [verb |-> verb, resource |-> resource, ns |-> ns, name |-> name]

\* one call of a typed handler's method, from the type switch to the return
TypedCall(verb, resource, namespaced, hns, route, in, srv) ==
    IF route = "ByName"
       THEN SdkCallOut(ApiCall(verb, resource,
                               IF namespaced THEN hns ELSE "", in.str),
                       {}, srv)
       ELSE LET n == Normalize(route, in) IN
            IF n.err # "nil"
               THEN NoCallOut(n.reads, n.err)
               ELSE SdkCallOut(ApiCall(verb, resource,
                                       IF namespaced
                                          THEN TargetNamespace(n.obj.namespace, hns)
                                          ELSE "",
                                       n.obj.name),
                               n.reads, srv)

\* the outcome of the REST mapper's lookups during one call
MapperAnswers == [gvrFails : BOOLEAN, gvkFails : BOOLEAN, nsFails : BOOLEAN]
\* utilrestmapper.GVKToGVR and FindGVR: the resource of a kind
GVKToGVR(m, kind) ==
    IF m.gvrFails \/ kind \notin NamespacedKinds \cup ClusterKinds
       THEN [err |-> "errNoKindMatch", gvr |-> ""]
       ELSE [err |-> "nil", gvr |-> kind]
FindGVR(m, obj) == GVKToGVR(m, obj.kind)
\* utilrestmapper.FindGVK: the kind of an object
FindGVK(m, obj) ==
    IF m.gvkFails \/ obj.kind \notin NamespacedKinds \cup ClusterKinds
       THEN [err |-> "errNoKindMatch", gvk |-> ""]
       ELSE [err |-> "nil", gvk |-> obj.kind]
\* utilrestmapper.IsNamespaced
IsNamespaced(m, kind) ==
    IF m.nsFails \/ kind \notin NamespacedKinds \cup ClusterKinds
       THEN [err |-> "errNoKindMatch", namespaced |-> FALSE]
       ELSE [err |-> "nil", namespaced |-> kind \in NamespacedKinds]

\* dynamic DeleteByName, rolebinding/informer.go lines 131-150
dynamic_DeleteByName(hns, gvk, name, m, srv) ==
    IF GVKToGVR(m, gvk).err # "nil"
       THEN NoCallOut({}, GVKToGVR(m, gvk).err)
    ELSE IF IsNamespaced(m, gvk).err # "nil"
       THEN NoCallOut({}, IsNamespaced(m, gvk).err)
    ELSE IF IsNamespaced(m, gvk).namespaced
       THEN SdkCallOut(ApiCall("delete", GVKToGVR(m, gvk).gvr, hns, name),
                       {}, srv)
       ELSE SdkCallOut(ApiCall("delete", GVKToGVR(m, gvk).gvr, "", name),
                       {}, srv)

\* a faulty variant of dynamic_deleteUnstructured: the object's own
\* namespace is ignored
dynamic_deleteUnstructuredHandlerNs(hns, obj, reads, m, srv) ==
    IF FindGVR(m, obj).err # "nil"
       THEN NoCallOut(reads, FindGVR(m, obj).err)
    ELSE IF FindGVK(m, obj).err # "nil"
       THEN NoCallOut(reads, FindGVK(m, obj).err)
    ELSE IF IsNamespaced(m, FindGVK(m, obj).gvk).err # "nil"
       THEN NoCallOut(reads, IsNamespaced(m, FindGVK(m, obj).gvk).err)
    ELSE SdkCallOut(ApiCall("delete", FindGVR(m, obj).gvr,
                            IF IsNamespaced(m, FindGVK(m, obj).gvk).namespaced
                               THEN hns ELSE "",
                            obj.name),
                    reads, srv)

\* dynamic deleteUnstructured, rolebinding/informer.go lines 190-220
dynamic_deleteUnstructured(hns, obj, reads, m, srv) ==
    IF FindGVR(m, obj).err # "nil"
       THEN NoCallOut(reads, FindGVR(m, obj).err)
    ELSE IF FindGVK(m, obj).err # "nil"
       THEN NoCallOut(reads, FindGVK(m, obj).err)
    ELSE IF IsNamespaced(m, FindGVK(m, obj).gvk).err # "nil"
       THEN NoCallOut(reads, IsNamespaced(m, FindGVK(m, obj).gvk).err)
    ELSE IF IsNamespaced(m, FindGVK(m, obj).gvk).namespaced
       THEN SdkCallOut(ApiCall("delete", FindGVR(m, obj).gvr,
                               TargetNamespace(obj.namespace, hns), obj.name),
                       reads, srv)
       ELSE SdkCallOut(ApiCall("delete", FindGVR(m, obj).gvr, "", obj.name),
                       reads, srv)

\* dynamic Delete, rolebinding/informer.go lines 111-128: a typed pointer
\* is a runtime.Object and goes through DeleteFromObject (ToUnstructured)
dynamic_DeleteRoute(shape) ==
    CASE shape = "string" -> "ByName"
      [] shape = "bytes" -> "FromBytes"
      [] shape \in {"unstructuredPtr", "unstructured", "map"} -> "FromObject"
      [] shape \in {"ptr", "otherObject"} -> "FromUnstructured"
      [] OTHER -> "ErrType"

dynamic_Call(hns, gvk, route, in, m, srv) ==
    IF route = "ByName" THEN dynamic_DeleteByName(hns, gvk, in.str, m, srv)
    ELSE LET n == Normalize(route, in) IN
         IF n.err # "nil"
            THEN NoCallOut(n.reads, n.err)
            ELSE dynamic_deleteUnstructured(hns, n.obj, n.reads, m, srv)

NoMapper == [gvrFails |-> FALSE, gvkFails |-> FALSE, nsFails |-> FALSE]
NoReqCall ==
    [handler |-> "none", method |-> "none", hns |-> "", gvk |-> "",
     mapper |-> NoMapper,
     in |-> [shape |-> "none", str |-> "", data |-> "", obj |-> NilReqObj,
             conv |-> TRUE]]

\* the kinds whose delete sets the propagation policy first,
\* types.KindJob and types.KindCronJob
JobKinds == {"Job", "CronJob"}
\* the PropagationPolicy of the handler's DeleteOptions before a call
PolicyValues == {"nil", "Foreground"}
NoPolicyChange == [before |-> "nil", after |-> "nil"]

\* the handler's PropagationPolicy after a dynamic delete: lines 143-145
\* and 206-208 call h.SetPropagationPolicy("background") for a Job or
\* CronJob once the REST mapper has resolved the kind
dynamic_Policy(policy, gvk, route, in, m) ==
    IF route = "ByName"
       THEN IF /\ GVKToGVR(m, gvk).err = "nil"
               /\ IsNamespaced(m, gvk).err = "nil"
               /\ gvk \in JobKinds
               THEN "Background" ELSE policy
       ELSE LET n == Normalize(route, in) IN
            IF /\ n.err = "nil"
               /\ FindGVR(m, n.obj).err = "nil"
               /\ FindGVK(m, n.obj).err = "nil"
               /\ IsNamespaced(m, FindGVK(m, n.obj).gvk).err = "nil"
               /\ FindGVK(m, n.obj).gvk \in JobKinds
               THEN "Background" ELSE policy

\* the record of a call and of its outcome
Recorded(handler, method, hns, gvk, m, in, out, policy) ==
    /\ rCall' = [handler |-> handler, method |-> method, hns |-> hns,
                 gvk |-> gvk, mapper |-> m, in |-> in]
    /\ rApi' = out.api
    /\ rReads' = out.reads
    /\ rRet' = out.err
    /\ rSdk' = out.sdk
    /\ rObj' = out.obj
    /\ rPolicy' = policy
    /\ UNCHANGED notReq

\* a call of a typed handler: Delete / Get / Update / Create leave the
\* handler's options alone
Called(handler, method, hns, gvk, m, in, out) ==
    Recorded(handler, method, hns, gvk, m, in, out, NoPolicyChange)

NodeDelete ==
    /\ rCall = NoReqCall
    /\ \E hns \in HandlerNamespaces, in \in ReqInputs, srv \in ApiAnswers :
         Called("node", "Delete", hns, "", NoMapper, in,
                TypedCall("delete", "nodes", FALSE, hns,
                          node_DeleteRoute(in.shape), in, srv))

NodeDeleteFromFile ==
    /\ rCall = NoReqCall
    /\ \E hns \in HandlerNamespaces, in \in FileInputs, srv \in ApiAnswers :
         Called("node", "DeleteFromFile", hns, "", NoMapper, in,
                TypedCall("delete", "nodes", FALSE, hns, "FromFile", in, srv))

RoleBindingDelete ==
    /\ rCall = NoReqCall
    /\ \E hns \in HandlerNamespaces, in \in ReqInputs, srv \in ApiAnswers :
         Called("rolebinding", "Delete", hns, "", NoMapper, in,
                TypedCall("delete", "rolebindings", TRUE, hns,
                          rolebinding_DeleteRoute(in.shape), in, srv))

RoleBindingDeleteFromFile ==
    /\ rCall = NoReqCall
    /\ \E hns \in HandlerNamespaces, in \in FileInputs, srv \in ApiAnswers :
         Called("rolebinding", "DeleteFromFile", hns, "", NoMapper, in,
                TypedCall("delete", "rolebindings", TRUE, hns, "FromFile", in, srv))

ConfigMapGet ==
    /\ rCall = NoReqCall
    /\ \E hns \in HandlerNamespaces, in \in ReqInputs, srv \in ApiAnswers :
         Called("configmap", "Get", hns, "", NoMapper, in,
                TypedCall("get", "configmaps", TRUE, hns, GetRoute(in.shape),
                          in, srv))

ConfigMapGetFromFile ==
    /\ rCall = NoReqCall
    /\ \E hns \in HandlerNamespaces, in \in FileInputs, srv \in ApiAnswers :
         Called("configmap", "GetFromFile", hns, "", NoMapper, in,
                TypedCall("get", "configmaps", TRUE, hns, "FromFile", in, srv))

IngressGet ==
    /\ rCall = NoReqCall
    /\ \E hns \in HandlerNamespaces, in \in ReqInputs, srv \in ApiAnswers :
         Called("ingress", "Get", hns, "", NoMapper, in,
                TypedCall("get", "ingresses", TRUE, hns, GetRoute(in.shape),
                          in, srv))

IngressGetFromFile ==
    /\ rCall = NoReqCall
    /\ \E hns \in HandlerNamespaces, in \in FileInputs, srv \in ApiAnswers :
         Called("ingress", "GetFromFile", hns, "", NoMapper, in,
                TypedCall("get", "ingresses", TRUE, hns, "FromFile", in, srv))

DaemonSetUpdate ==
    /\ rCall = NoReqCall
    /\ \E hns \in HandlerNamespaces, in \in ReqInputs, srv \in ApiAnswers :
         Called("daemonset", "Update", hns, "", NoMapper, in,
                TypedCall("update", "daemonsets", TRUE, hns,
                          FileFirstRoute(in.shape), in, srv))

DeploymentUpdate ==
    /\ rCall = NoReqCall
    /\ \E hns \in HandlerNamespaces, in \in ReqInputs, srv \in ApiAnswers :
         Called("deployment", "Update", hns, "", NoMapper, in,
                TypedCall("update", "deployments", TRUE, hns,
                          FileFirstRoute(in.shape), in, srv))

PVCCreate ==
    /\ rCall = NoReqCall
    /\ \E hns \in HandlerNamespaces, in \in ReqInputs, srv \in ApiAnswers :
         Called("persistentvolumeclaim", "Create", hns, "", NoMapper, in,
                TypedCall("create", "persistentvolumeclaims", TRUE, hns,
                          FileFirstRoute(in.shape), in, srv))

\* the objects the dynamic handler is given carry any of the kinds
DynInputs ==
    {[in EXCEPT !.obj.kind = k] : in \in ReqInputs \ FileInputs, k \in DynKinds}
    \cup FileInputs

DynamicDelete ==
    /\ rCall = NoReqCall
    /\ \E hns \in HandlerNamespaces, gvk \in DynKinds, in \in DynInputs,
          m \in MapperAnswers, srv \in ApiAnswers, policy \in PolicyValues :
         Recorded("dynamic", "Delete", hns, gvk, m, in,
                  dynamic_Call(hns, gvk, dynamic_DeleteRoute(in.shape), in, m,
                               srv),
                  [before |-> policy,
                   after |-> dynamic_Policy(policy, gvk,
                                            dynamic_DeleteRoute(in.shape), in, m)])

DynamicDeleteFromFile ==
    /\ rCall = NoReqCall
    /\ \E hns \in HandlerNamespaces, gvk \in DynKinds, in \in FileInputs,
          m \in MapperAnswers, srv \in ApiAnswers, policy \in PolicyValues :
         Recorded("dynamic", "DeleteFromFile", hns, gvk, m, in,
                  dynamic_Call(hns, gvk, "FromFile", in, m, srv),
                  [before |-> policy,
                   after |-> dynamic_Policy(policy, gvk, "FromFile", in, m)])

\* the caller has taken the result; the next call starts afresh
ReqDone ==
    /\ rCall # NoReqCall
    /\ rCall' = NoReqCall
    /\ rApi' = << >>
    /\ rReads' = {}
    /\ rRet' = "nil"
    /\ rSdk' = << >>
    /\ rObj' = "nil"
    /\ rPolicy' = NoPolicyChange
    /\ UNCHANGED notReq

ReqInit ==
    /\ rCall = NoReqCall
    /\ rApi = << >>
    /\ rReads = {}
    /\ rRet = "nil"
    /\ rSdk = << >>
    /\ rObj = "nil"
    /\ rPolicy = NoPolicyChange

(* ---------------------------------------------------------------------- *)
(* Handler (deployment/deployment.go, cronjob/cronjob.go): New, DeepCopy,  *)
(* WithNamespace, WithDryRun and the setters                               *)
(* ---------------------------------------------------------------------- *)
Addrs == 1 .. MaxHandlers

\* the zero value of HandlerOptions: an absent pointer or slice is "nil"
ZeroOptions ==
    [listTimeout |-> "nil", listLimit |-> "0",
     createDryRun |-> "nil", updateDryRun |-> "nil", patchDryRun |-> "nil",
     applyDryRun |-> "nil",
     deleteGrace |-> "nil", deletePolicy |-> "nil", deleteDryRun |-> "nil"]

NoHandler == [alloc |-> FALSE, pkg |-> "", namespace |-> "", opts |-> 0,
              locked |-> FALSE]
NoOp == [name |-> "none", target |-> 0, from |-> 0, calls |-> 0]

Allocated == {a \in Addrs : hs[a].alloc}
\* the next free address
Fresh == CHOOSE a \in Addrs : ~hs[a].alloc /\ \A b \in Addrs : b < a => hs[b].alloc

\* strings.ToLower(policy) and the switch of SetPropagationPolicy,
\* cronjob.go lines 226-239
PropagationPolicy(policy) ==
    CASE policy \in {"Background", "background"} -> "Background"
      [] policy \in {"Foreground", "foreground"} -> "Foreground"
      [] policy \in {"Orphan", "orphan"}         -> "Orphan"
      [] OTHER                                   -> "Background"

\* a faulty variant of DeepCopy: the copy points at the receiver's Options
DeepCopyShared(in, fresh) ==
    [h |-> [alloc |-> TRUE, pkg |-> hs[in].pkg, namespace |-> hs[in].namespace,
            opts |-> hs[in].opts, locked |-> FALSE],
     o |-> ZeroOptions]

\* DeepCopy, deployment.go lines 138-171 and cronjob.go lines 168-196: a
\* new Handler with a new HandlerOptions; List, Get, Create, Update, Patch
\* and Apply options are copied, DeleteOptions are not; the cronjob copy
\* then calls SetPropagationPolicy("background")
DeepCopy(in, fresh) ==
    [h |-> [alloc |-> TRUE, pkg |-> hs[in].pkg, namespace |-> hs[in].namespace,
            opts |-> fresh, locked |-> FALSE],
     o |-> [listTimeout |-> os[hs[in].opts].listTimeout,
            listLimit |-> os[hs[in].opts].listLimit,
            createDryRun |-> os[hs[in].opts].createDryRun,
            updateDryRun |-> os[hs[in].opts].updateDryRun,
            patchDryRun |-> os[hs[in].opts].patchDryRun,
            applyDryRun |-> os[hs[in].opts].applyDryRun,
            deleteGrace |-> "nil",
            deletePolicy |-> IF hs[in].pkg = "cronjob"
                                THEN PropagationPolicy("background") ELSE "nil",
            deleteDryRun |-> "nil"]]

\* deployment.New, lines 115-131: an empty namespace means "default"
DeploymentNew ==
    /\ Allocated = {}
    /\ \E ns \in {"", "ns1"} :
         /\ hs' = [hs EXCEPT ![1] = [alloc |-> TRUE, pkg |-> "deployment",
                                     namespace |-> IF Len(ns) = 0 THEN "default"
                                                   ELSE ns,
                                     opts |-> 1, locked |-> FALSE]]
         /\ os' = [os EXCEPT ![1] = ZeroOptions]
         /\ op' = [name |-> "New", target |-> 1, from |-> 0, calls |-> op.calls]
    /\ UNCHANGED notHandler

\* cronjob.New, lines 129-145
CronJobNew ==
    /\ Allocated = {}
    /\ \E ns \in {"", "ns1"} :
         /\ hs' = [hs EXCEPT ![1] = [alloc |-> TRUE, pkg |-> "cronjob",
                                     namespace |-> IF Len(ns) = 0 THEN "default"
                                                   ELSE ns,
                                     opts |-> 1, locked |-> FALSE]]
         /\ os' = [os EXCEPT ![1] =
                      [ZeroOptions EXCEPT
                          !.deletePolicy = PropagationPolicy("background")]]
         /\ op' = [name |-> "New", target |-> 1, from |-> 0, calls |-> op.calls]
    /\ UNCHANGED notHandler

\* WithNamespace, deployment.go lines 177-181 and cronjob.go lines 150-154:
\* handler := h.DeepCopy(); handler.setNamespace(namespace)
WithNamespace ==
    /\ Allocated # {}
    /\ Allocated # Addrs
    /\ \E h \in Allocated, ns \in {"ns1", "ns2"} :
         LET c == DeepCopy(h, Fresh) IN
         /\ hs' = [hs EXCEPT ![Fresh] = [c.h EXCEPT !.namespace = ns]]
         /\ os' = [os EXCEPT ![Fresh] = c.o]
         /\ op' = [name |-> "WithNamespace", target |-> Fresh, from |-> h,
                   calls |-> op.calls]
    /\ UNCHANGED notHandler

\* a faulty variant of WithDryRun: DeleteOptions.DryRun is not set
WithDryRunNoDelete ==
    /\ Allocated # {}
    /\ Allocated # Addrs
    /\ \E h \in Allocated :
         LET c == DeepCopy(h, Fresh)
             os1 == [os EXCEPT ![Fresh] = c.o]
         IN
         /\ hs' = [hs EXCEPT ![Fresh] = c.h]
         /\ os' = [os1 EXCEPT ![c.h.opts] =
                      [@ EXCEPT !.createDryRun = "All", !.updateDryRun = "All",
                                !.patchDryRun = "All", !.applyDryRun = "All"]]
         /\ op' = [name |-> "WithDryRun", target |-> Fresh, from |-> h,
                   calls |-> op.calls]
    /\ UNCHANGED notHandler

\* WithDryRun, deployment.go lines 182-190 and cronjob.go lines 158-167
WithDryRun ==
    /\ Allocated # {}
    /\ Allocated # Addrs
    /\ \E h \in Allocated :
         LET c == DeepCopy(h, Fresh)
             os1 == [os EXCEPT ![Fresh] = c.o]
         IN
         /\ hs' = [hs EXCEPT ![Fresh] = c.h]
         /\ os' = [os1 EXCEPT ![c.h.opts] =
                      [@ EXCEPT !.createDryRun = "All", !.updateDryRun = "All",
                                !.deleteDryRun = "All", !.patchDryRun = "All",
                                !.applyDryRun = "All",
                                !.deletePolicy =
                                    IF hs[h].pkg = "cronjob"
                                       THEN PropagationPolicy("background")
                                       ELSE @]]
         /\ op' = [name |-> "WithDryRun", target |-> Fresh, from |-> h,
                   calls |-> op.calls]
    /\ UNCHANGED notHandler

\* a setter called on handler h: it takes h's mutex first, which blocks
\* for ever once a call has left the mutex locked
SetterCall(h, name) ==
    /\ h \in Allocated
    /\ ~hs[h].locked
    /\ op.calls < MaxSetterCalls
    /\ op' = [name |-> name, target |-> h, from |-> h, calls |-> op.calls + 1]
    /\ UNCHANGED notHandler

\* SetTimeout, deployment.go lines 191-195 and cronjob.go lines 203-207
SetTimeout ==
    \E h \in Addrs, timeout \in {"30"} :
      /\ SetterCall(h, "SetTimeout")
      /\ os' = [os EXCEPT ![hs[h].opts].listTimeout = timeout]
      /\ UNCHANGED hs

\* SetLimit, deployment.go lines 196-200 and cronjob.go lines 208-212
SetLimit ==
    \E h \in Addrs, limit \in {"100"} :
      /\ SetterCall(h, "SetLimit")
      /\ os' = [os EXCEPT ![hs[h].opts].listLimit = limit]
      /\ UNCHANGED hs

\* deployment SetForceDelete, deployment.go lines 201-210
DeploymentSetForceDelete ==
    \E h \in Addrs, force \in BOOLEAN :
      /\ SetterCall(h, "SetForceDelete")
      /\ hs[h].pkg = "deployment"
      /\ os' = [os EXCEPT ![hs[h].opts] =
                   IF force THEN [@ EXCEPT !.deleteGrace = "0"]
                   ELSE [@ EXCEPT !.deleteGrace = "nil", !.deletePolicy = "nil",
                                  !.deleteDryRun = "nil"]]
      /\ UNCHANGED hs

\* cronjob SetForceDelete, cronjob.go lines 213-219: "defer h.l.Lock()"
\* locks the held mutex again when the body is done, so the call never
\* returns and the mutex stays locked
CronJobSetForceDelete ==
    \E h \in Addrs, force \in BOOLEAN :
      /\ SetterCall(h, "SetForceDelete")
      /\ hs[h].pkg = "cronjob"
      /\ os' = [os EXCEPT ![hs[h].opts] =
                   IF force THEN [@ EXCEPT !.deleteGrace = "0"] ELSE @]
      /\ hs' = [hs EXCEPT ![h].locked = TRUE]

\* cronjob SetPropagationPolicy, cronjob.go lines 223-240
SetPropagationPolicy ==
    \E h \in Addrs, policy \in {"Foreground", "orphan", "no-such-policy"} :
      /\ SetterCall(h, "SetPropagationPolicy")
      /\ hs[h].pkg = "cronjob"
      /\ os' = [os EXCEPT ![hs[h].opts].deletePolicy = PropagationPolicy(policy)]
      /\ UNCHANGED hs

(* ---------------------------------------------------------------------- *)
(* New (cronjob/cronjob.go, deployment/deployment.go): the choice of the   *)
(* cluster configuration                                                   *)
(* ---------------------------------------------------------------------- *)
\* clientcmd.RecommendedHomeFile: path.Join(homedir.HomeDir(), ".kube",
\* "config"), a package variable that is never the empty string
RecommendedHomeFile == "home/.kube/config"

KubeconfigArgs == {"", "kc.yaml", "ns1"}
KubeconfigFiles == {"kc.yaml", "env.yaml", "ns1", RecommendedHomeFile}
NamespaceArgs == {"", "ns1"}

NoConfig == [err |-> "nil", kind |-> "none", path |-> "", reads |-> {}]

\* rest.InClusterConfig
InClusterConfig ==
    IF inCluster
       THEN [err |-> "nil", kind |-> "inCluster", path |-> "", reads |-> {}]
       ELSE [err |-> "ErrNotInCluster", kind |-> "inCluster", path |-> "",
             reads |-> {}]

\* clientcmd.BuildConfigFromFlags("", kubeconfigPath): an explicit path
\* must exist; only an empty path falls back to the in-cluster config
BuildConfigFromFlags(kubeconfigPath) ==
    IF Len(kubeconfigPath) = 0
       THEN IF inCluster THEN InClusterConfig
            ELSE [err |-> "EmptyConfig", kind |-> "file", path |-> "",
                  reads |-> {}]
       ELSE IF kubeconfigPath \in files
               THEN [err |-> "nil", kind |-> "file", path |-> kubeconfigPath,
                     reads |-> {kubeconfigPath}]
               ELSE [err |-> "NotExist", kind |-> "file",
                     path |-> kubeconfigPath, reads |-> {kubeconfigPath}]

\* the handler New returns: nil with the error of the configuration, or a
\* handler whose namespace is "default" when the argument is empty
NewHandler(config, kubeconfig, namespace) ==
    IF config.err # "nil"
       THEN [err |-> config.err, config |-> config, handler |-> "nil",
             namespace |-> "", kubeconfig |-> ""]
       ELSE [err |-> "nil", config |-> config, handler |-> "handler",
             namespace |-> IF Len(namespace) = 0 THEN "default" ELSE namespace,
             kubeconfig |-> kubeconfig]

\* cronjob.New(ctx, kubeconfig, namespace), cronjob.go lines 63-146
cronjob_New(kubeconfig, namespace) ==
    LET config ==
          IF Len(kubeconfig) # 0 THEN BuildConfigFromFlags(kubeconfig)
          ELSE IF Len(kubeconfigEnv) # 0 THEN BuildConfigFromFlags(kubeconfigEnv)
          ELSE IF Len(RecommendedHomeFile) # 0
                  THEN BuildConfigFromFlags(RecommendedHomeFile)
          ELSE InClusterConfig
    IN NewHandler(config, kubeconfig, namespace)

\* deployment.New(ctx, namespace, kubeconfig), deployment.go lines 55-134
deployment_New(namespace, kubeconfig) ==
    LET config ==
          IF Len(kubeconfig) # 0 THEN BuildConfigFromFlags(kubeconfig)
          ELSE InClusterConfig
    IN NewHandler(config, kubeconfig, namespace)

NoNewCall == [pkg |-> "", form |-> "", first |-> "", second |-> ""]
NoNewRet == NewHandler(NoConfig, "", "")

\* cronjob.New(ctx, kubeconfig, namespace) is called
CronJobNewCall ==
    /\ nCall = NoNewCall
    /\ \E kubeconfig \in KubeconfigArgs, namespace \in NamespaceArgs :
         /\ nCall' = [pkg |-> "cronjob", form |-> "New",
                      first |-> kubeconfig, second |-> namespace]
         /\ nRet' = cronjob_New(kubeconfig, namespace)
    /\ UNCHANGED <<kubeconfigEnv, files, inCluster>>
    /\ UNCHANGED notConfig

\* deployment.New(ctx, namespace, kubeconfig) is called as the example
\* Deployment_Delete calls it, part_001 line 11
DeploymentNewCall ==
    /\ nCall = NoNewCall
    /\ \E namespace \in NamespaceArgs, kubeconfig \in KubeconfigArgs :
         /\ nCall' = [pkg |-> "deployment", form |-> "New",
                      first |-> namespace, second |-> kubeconfig]
         /\ nRet' = deployment_New(namespace, kubeconfig)
    /\ UNCHANGED <<kubeconfigEnv, files, inCluster>>
    /\ UNCHANGED notConfig

\* the README's call for a handler inside the cluster, part_005 lines 8 and
\* 16: deployment.New(ctx, "", namespace1); Go binds the arguments by
\* position, the first to New's namespace and the second to its kubeconfig
ReadmeInsideCluster ==
    /\ nCall = NoNewCall
    /\ \E namespace1 \in NamespaceArgs \ {""} :
         /\ nCall' = [pkg |-> "deployment", form |-> "README",
                      first |-> "", second |-> namespace1]
         /\ nRet' = deployment_New("", namespace1)
    /\ UNCHANGED <<kubeconfigEnv, files, inCluster>>
    /\ UNCHANGED notConfig

\* the caller is done with the result
NewDone ==
    /\ nCall # NoNewCall
    /\ nCall' = NoNewCall
    /\ nRet' = NoNewRet
    /\ UNCHANGED <<kubeconfigEnv, files, inCluster>>
    /\ UNCHANGED notConfig

\* a process in a pod, with no KUBECONFIG and no kubeconfig file
ConfigInit ==
    /\ kubeconfigEnv = ""
    /\ files = {}
    /\ inCluster = TRUE
    /\ nCall = NoNewCall
    /\ nRet = NoNewRet

\* any environment a process can start in
ConfigEnvInit ==
    /\ kubeconfigEnv \in {"", "env.yaml"}
    /\ files \in SUBSET KubeconfigFiles
    /\ inCluster \in BOOLEAN
    /\ nCall = NoNewCall
    /\ nRet = NoNewRet

(* ---------------------------------------------------------------------- *)
(* The setters as goroutines see them (deployment/deployment.go lines      *)
(* 172-210, cronjob/cronjob.go lines 197-240): Lock, Unlock and the write  *)
(* are separate steps                                                      *)
(* ---------------------------------------------------------------------- *)
Goroutines == 1 .. MaxGoroutines
LockPackages == {"deployment", "cronjob"}

\* the setters of each package
Setters(pkg) ==
    IF pkg = "deployment"
       THEN {"setNamespace", "SetTimeout", "SetLimit", "SetForceDelete"}
       ELSE {"resetNamespace", "SetTimeout", "SetLimit", "SetForceDelete",
             "SetPropagationPolicy"}

\* the field a setter assigns
FieldOf(name) ==
    CASE name \in {"setNamespace", "resetNamespace"} -> "namespace"
      [] name = "SetTimeout" -> "Options.ListOptions.TimeoutSeconds"
      [] name = "SetLimit" -> "Options.ListOptions.Limit"
      [] name = "SetForceDelete" -> "Options.DeleteOptions"
      [] OTHER -> "Options.DeleteOptions.PropagationPolicy"

\* the statements of a setter in the order they execute, deferred calls
\* last:
\*   deployment setNamespace      h.Lock(); h.Unlock(); h.namespace = ...
\*   cronjob SetForceDelete       h.l.Lock(); defer h.l.Lock(); if force {...}
\*   every other setter           Lock(); defer Unlock(); the assignment
SetterBody(pkg, name, force) ==
    CASE pkg = "deployment" /\ name = "setNamespace" ->
            <<"Lock", "Unlock", "Write">>
      [] pkg = "cronjob" /\ name = "SetForceDelete" ->
            IF force THEN <<"Lock", "Write", "Lock">> ELSE <<"Lock", "Lock">>
      [] OTHER -> <<"Lock", "Write", "Unlock">>

NoSetter == [pkg |-> "", name |-> "", force |-> FALSE]
NoWrite == [pkg |-> "", field |-> "", held |-> FALSE]

\* the statement goroutine g is at, "Return" past the last one
Statement(g) ==
    IF gcall[g] = NoSetter THEN "none"
    ELSE LET body == SetterBody(gcall[g].pkg, gcall[g].name, gcall[g].force)
         IN IF gpc[g] > Len(body) THEN "Return" ELSE body[gpc[g]]

\* goroutine g calls a setter of the handler of package pkg
CallSetter(g) ==
    /\ gcall[g] = NoSetter
    /\ \E pkg \in LockPackages, force \in BOOLEAN :
         \E name \in Setters(pkg) :
           /\ (name # "SetForceDelete") => ~force
           /\ gcall' = [gcall EXCEPT ![g] =
                           [pkg |-> pkg, name |-> name, force |-> force]]
    /\ gpc' = [gpc EXCEPT ![g] = 1]
    /\ UNCHANGED <<mu, gw>>
    /\ UNCHANGED notLock

\* Lock: blocks until the mutex is free; the mutex is not reentrant
Lock(g) ==
    /\ Statement(g) = "Lock"
    /\ mu[gcall[g].pkg] = 0
    /\ mu' = [mu EXCEPT ![gcall[g].pkg] = g]
    /\ gpc' = [gpc EXCEPT ![g] = @ + 1]
    /\ UNCHANGED <<gcall, gw>>
    /\ UNCHANGED notLock

\* Unlock
Unlock(g) ==
    /\ Statement(g) = "Unlock"
    /\ mu' = [mu EXCEPT ![gcall[g].pkg] = 0]
    /\ gpc' = [gpc EXCEPT ![g] = @ + 1]
    /\ UNCHANGED <<gcall, gw>>
    /\ UNCHANGED notLock

\* the assignment to the handler's field
Write(g) ==
    /\ Statement(g) = "Write"
    /\ gw' = [pkg |-> gcall[g].pkg, field |-> FieldOf(gcall[g].name),
              held |-> mu[gcall[g].pkg] = g]
    /\ gpc' = [gpc EXCEPT ![g] = @ + 1]
    /\ UNCHANGED <<mu, gcall>>
    /\ UNCHANGED notLock

\* the setter returns
Return(g) ==
    /\ Statement(g) = "Return"
    /\ gcall' = [gcall EXCEPT ![g] = NoSetter]
    /\ gpc' = [gpc EXCEPT ![g] = 0]
    /\ UNCHANGED <<mu, gw>>
    /\ UNCHANGED notLock

LockInit ==
    /\ mu = [pkg \in LockPackages |-> 0]
    /\ gcall = [g \in Goroutines |-> NoSetter]
    /\ gpc = [g \in Goroutines |-> 0]
    /\ gw = NoWrite

(* ---------------------------------------------------------------------- *)
(* RunInformer (job: unnamed/part_002 lines 82-115, rolebinding:           *)
(* rolebinding/informer.go lines 41-74)                                    *)
(* ---------------------------------------------------------------------- *)
InformerHandlers == {"job", "rolebinding"}

NoEventHandler == [add |-> "nil", update |-> "nil", delete |-> "nil"]

\* cache.ResourceEventHandlerFuncs{AddFunc: addFunc, UpdateFunc: updateFunc,
\* DeleteFunc: deleteFunc}
ResourceEventHandlerFuncs(addFunc, updateFunc, deleteFunc) ==
    [add |-> addFunc, update |-> updateFunc, delete |-> deleteFunc]

\* RunInformer up to its blocking call: AddEventHandler, then
\* InformerFactory().Start(stopCh), which starts the informer's goroutine
\* and returns at once; the goroutine exits when stopCh is closed
RunInformer(h) ==
    /\ ipc[h] = "idle"
    /\ ifns' = [ifns EXCEPT ![h] =
                   ResourceEventHandlerFuncs("addFunc", "updateFunc",
                                             "deleteFunc")]
    /\ informer' = [informer EXCEPT ![h] = "running"]
    /\ ipc' = [ipc EXCEPT ![h] = "WaitForCacheSync"]
    /\ UNCHANGED <<stopCh, icb>>
    /\ UNCHANGED notInformer

\* cache.WaitForCacheSync(stopCh, HasSynced) returns true once the cache
\* has synced and false once stopCh is closed; RunInformer logs the
\* failure and returns in both cases
WaitForCacheSync(h) ==
    /\ ipc[h] = "WaitForCacheSync"
    /\ \/ /\ informer[h] = "synced"
          /\ ipc' = [ipc EXCEPT ![h] = "returned"]
       \/ /\ stopCh[h] = "closed"
          /\ ipc' = [ipc EXCEPT ![h] = "returned unsynced"]
    /\ UNCHANGED <<stopCh, informer, ifns, icb>>
    /\ UNCHANGED notInformer

\* the informer's first list completes: HasSynced becomes true
InformerSyncs(h) ==
    /\ informer[h] = "running"
    /\ stopCh[h] = "open"
    /\ informer' = [informer EXCEPT ![h] = "synced"]
    /\ UNCHANGED <<ipc, stopCh, ifns, icb>>
    /\ UNCHANGED notInformer

\* the informer delivers an event to the registered handler
InformerNotifies(h) ==
    /\ informer[h] \in {"running", "synced"}
    /\ \E e \in {"add", "update", "delete"} :
         /\ ifns[h][e] # "nil"
         /\ icb' = [icb EXCEPT ![h] = @ \cup {ifns[h][e]}]
    /\ UNCHANGED <<ipc, stopCh, informer, ifns>>
    /\ UNCHANGED notInformer

\* the caller closes stopCh
CloseStopCh(h) ==
    /\ stopCh[h] = "open"
    /\ stopCh' = [stopCh EXCEPT ![h] = "closed"]
    /\ UNCHANGED <<ipc, informer, ifns, icb>>
    /\ UNCHANGED notInformer

\* the informer's goroutine sees stopCh closed and exits
InformerStops(h) ==
    /\ informer[h] \in {"running", "synced"}
    /\ stopCh[h] = "closed"
    /\ informer' = [informer EXCEPT ![h] = "stopped"]
    /\ UNCHANGED <<ipc, stopCh, ifns, icb>>
    /\ UNCHANGED notInformer

InformerInit ==
    /\ ipc = [h \in InformerHandlers |-> "idle"]
    /\ stopCh = [h \in InformerHandlers |-> "open"]
    /\ informer = [h \in InformerHandlers |-> "not started"]
    /\ ifns = [h \in InformerHandlers |-> NoEventHandler]
    /\ icb = [h \in InformerHandlers |-> {}]

(* ---------------------------------------------------------------------- *)
(* Apply of the clusterrole handler (unnamed/part_006)                     *)
(* ---------------------------------------------------------------------- *)
\* a clusterrole: its name, its rules and the UID the server gave it
ClusterRoles == [name : {"admin"}, rules : {"r1", "r2"}, uid : {"", "uid-old"}]
NilCR == [name |-> "nil", rules |-> "", uid |-> ""]
\* &rbacv1.ClusterRole{}: what the SDK returns beside an error
EmptyCR == [name |-> "", rules |-> "", uid |-> ""]

\* manifests, by their text; a manifest carries no UID
ManifestDocs == {"name: admin, rules: r1", "{name:admin,rules:r2}", "a: b: c",
                 "- admin"}
ReadManifest(path) ==
    IF path = "admin.yaml"
       THEN [err |-> "nil", data |-> "name: admin, rules: r1"]
       ELSE [err |-> "errNotExist", data |-> ""]

\* yaml.ToJSON followed by json.Unmarshal into &rbacv1.ClusterRole{}
DecodeClusterRole(data) ==
    CASE data = "name: admin, rules: r1" ->
           [err |-> "nil", cr |-> [name |-> "admin", rules |-> "r1", uid |-> ""]]
      [] data = "{name:admin,rules:r2}" ->
           [err |-> "nil", cr |-> [name |-> "admin", rules |-> "r2", uid |-> ""]]
      [] data = "- admin" -> [err |-> "errUnmarshal", cr |-> NilCR]
      [] OTHER -> [err |-> "errYAML", cr |-> NilCR]

\* the server: whether the clusterrole exists, and whether the server
\* refuses a create or an update
ApplyServers == [exists : BOOLEAN, createErr : {"nil", "Forbidden"},
                 updateErr : {"nil", "Conflict"}]

\* ClusterRoles().Create(h.ctx, cr, h.Options.CreateOptions): the object as
\* the server stored it, or an empty object and the error
SDKCreate(cr, srv) ==
    LET err == IF srv.exists THEN "AlreadyExists" ELSE srv.createErr IN
    [verb |-> "create", sent |-> cr, err |-> err,
     obj |-> IF err = "nil" THEN [cr EXCEPT !.uid = "uid-new"] ELSE EmptyCR]

\* ClusterRoles().Update(h.ctx, cr, h.Options.UpdateOptions)
SDKUpdate(cr, srv) ==
    [verb |-> "update", sent |-> cr, err |-> srv.updateErr,
     obj |-> IF srv.updateErr = "nil" THEN [cr EXCEPT !.uid = "uid-srv"]
             ELSE EmptyCR]

\* createCR and updateCR clear ResourceVersion and UID, make the SDK call
\* and return its result
createCR(cr, srv) == SDKCreate([cr EXCEPT !.uid = ""], srv)
updateCR(cr, srv) == SDKUpdate([cr EXCEPT !.uid = ""], srv)

ApplyReturn(api, obj, err) == [api |-> api, obj |-> obj, err |-> err]

\* CreateFromBytes / UpdateFromBytes: decode, then createCR / updateCR
CreateFromBytes(data, srv) ==
    LET d == DecodeClusterRole(data) IN
    IF d.err # "nil" THEN ApplyReturn(<<>>, NilCR, d.err)
    ELSE LET c == createCR(d.cr, srv) IN ApplyReturn(<<c>>, c.obj, c.err)

UpdateFromBytes(data, srv) ==
    LET d == DecodeClusterRole(data) IN
    IF d.err # "nil" THEN ApplyReturn(<<>>, NilCR, d.err)
    ELSE LET u == updateCR(d.cr, srv) IN ApplyReturn(<<u>>, u.obj, u.err)

\* ApplyFromBytes, lines 52-58
ApplyFromBytes(data, srv) ==
    LET c == CreateFromBytes(data, srv) IN
    IF c.err = "AlreadyExists"
       THEN LET u == UpdateFromBytes(data, srv) IN
            ApplyReturn(c.api \o u.api, u.obj, u.err)
       ELSE c

\* ApplyFromFile, lines 43-49: CreateFromFile and UpdateFromFile read the
\* file and go on as the FromBytes methods
ApplyFromFile(filename, srv) ==
    LET f == ReadManifest(filename) IN
    IF f.err # "nil" THEN ApplyReturn(<<>>, NilCR, f.err)
    ELSE ApplyFromBytes(f.data, srv)

\* applyCR, lines 90-96: the result of createCR is dropped and the
\* caller's object (its UID cleared by createCR) is returned with the error
applyCR(cr, srv) ==
    LET c == createCR(cr, srv) IN
    IF c.err = "AlreadyExists"
       THEN LET u == updateCR(cr, srv) IN ApplyReturn(<<c, u>>, u.obj, u.err)
       ELSE ApplyReturn(<<c>>, [cr EXCEPT !.uid = ""], c.err)

\* the shapes Apply accepts; a runtime.Object holds a *rbacv1.ClusterRole,
\* a *unstructured.Unstructured or an object of another kind
ApplyInputs ==
    [shape : {"string"}, path : {"admin.yaml", "missing.yaml"}, data : {""}, cr : {NilCR},
     conv : {TRUE}]
    \cup [shape : {"bytes"}, path : {""}, data : ManifestDocs, cr : {NilCR},
          conv : {TRUE}]
    \cup [shape : {"ptr", "value", "objectPtr"}, path : {""}, data : {""},
          cr : ClusterRoles, conv : {TRUE}]
    \cup [shape : {"objectUnstructured", "unstructuredValue", "map"},
          path : {""}, data : {""}, cr : ClusterRoles, conv : BOOLEAN]
    \cup [shape : {"objectOther", "other"}, path : {""}, data : {""},
          cr : {NilCR}, conv : {TRUE}]

\* Apply, lines 16-40, with ApplyFromObject (61-67), ApplyFromUnstructured
\* (70-77) and ApplyFromMap (80-87); a *unstructured.Unstructured is a
\* runtime.Object and is taken by that case
Apply(in, srv) ==
    CASE in.shape = "string" -> ApplyFromFile(in.path, srv)
      [] in.shape = "bytes" -> ApplyFromBytes(in.data, srv)
      [] in.shape \in {"ptr", "value", "objectPtr"} -> applyCR(in.cr, srv)
      [] in.shape = "objectOther" ->
           ApplyReturn(<<>>, NilCR, "errNotClusterRole")
      [] in.shape \in {"objectUnstructured", "unstructuredValue", "map"} ->
           IF ~in.conv THEN ApplyReturn(<<>>, NilCR, "errFromUnstructured")
           ELSE applyCR(in.cr, srv)
      [] OTHER -> ApplyReturn(<<>>, NilCR, "ERR_TYPE_APPLY")

NoApplyCall ==
    [in |-> [shape |-> "none", path |-> "", data |-> "", cr |-> NilCR,
             conv |-> TRUE],
     srv |-> [exists |-> FALSE, createErr |-> "nil", updateErr |-> "nil"]]

\* one Apply call of the clusterrole handler, from entry to return
ClusterRoleApply ==
    /\ aCall = NoApplyCall
    /\ \E in \in ApplyInputs, srv \in ApplyServers :
         LET out == Apply(in, srv) IN
         /\ aCall' = [in |-> in, srv |-> srv]
         /\ aApi' = out.api
         /\ aRet' = [obj |-> out.obj, err |-> out.err]
    /\ UNCHANGED notApply

\* the caller has taken the result
ApplyDone ==
    /\ aCall # NoApplyCall
    /\ aCall' = NoApplyCall
    /\ aApi' = <<>>
    /\ aRet' = [obj |-> NilCR, err |-> "nil"]
    /\ UNCHANGED notApply

ApplyInit ==
    /\ aCall = NoApplyCall
    /\ aApi = <<>>
    /\ aRet = [obj |-> NilCR, err |-> "nil"]

HandlerInit ==
    /\ hs = [a \in Addrs |-> NoHandler]
    /\ os = [a \in Addrs |-> ZeroOptions]
    /\ op = NoOp

WatchInit ==
    /\ wpc = "idle"
    /\ entry = "none"
    /\ listOptions = NoOptions
    /\ fns = NoFns
    /\ chan = <<>>
    /\ closed = FALSE
    /\ watchLog = <<>>
    /\ sent = <<>>
    /\ closes = 0
    /\ calls = <<>>
    /\ retErr = "nil"
    /\ openErr = "nil"

Init == WatchInit /\ PatchInit /\ ReqInit /\ HandlerInit /\ ConfigInit /\ LockInit
            /\ InformerInit /\ ApplyInit

WatchNext ==
    \/ Watch
    \/ CallWatchByLabel
    \/ WatchByName
    \/ WatchByField
    \/ OpenWatchFails
    \/ OpenWatchOk
    \/ ServerSend
    \/ ServerClose
    \/ Recv
    \/ Reconnect

SpecWatch == Init /\ [][WatchNext]_vars

PatchNext ==
    \/ ClusterRolePatch
    \/ PersistentVolumePatch
    \/ PatchDone

SpecPatch == Init /\ [][PatchNext]_vars

ReqNext ==
    \/ NodeDelete
    \/ NodeDeleteFromFile
    \/ RoleBindingDelete
    \/ RoleBindingDeleteFromFile
    \/ ConfigMapGet
    \/ ConfigMapGetFromFile
    \/ IngressGet
    \/ IngressGetFromFile
    \/ DaemonSetUpdate
    \/ DeploymentUpdate
    \/ PVCCreate
    \/ DynamicDelete
    \/ DynamicDeleteFromFile
    \/ ReqDone

SpecReq == Init /\ [][ReqNext]_vars

HandlerNext ==
    \/ DeploymentNew
    \/ CronJobNew
    \/ WithNamespace
    \/ WithDryRun
    \/ SetTimeout
    \/ SetLimit
    \/ DeploymentSetForceDelete
    \/ CronJobSetForceDelete
    \/ SetPropagationPolicy

SpecHandler == Init /\ [][HandlerNext]_vars

ConfigNext ==
    \/ CronJobNewCall
    \/ DeploymentNewCall
    \/ ReadmeInsideCluster
    \/ NewDone

InitConfig ==
    /\ WatchInit /\ PatchInit /\ ReqInit /\ HandlerInit /\ ConfigEnvInit
    /\ LockInit /\ InformerInit /\ ApplyInit

SpecConfig == InitConfig /\ [][ConfigNext]_vars

LockNext ==
    \E g \in Goroutines :
      \/ CallSetter(g)
      \/ Lock(g)
      \/ Unlock(g)
      \/ Write(g)
      \/ Return(g)

SpecLock == Init /\ [][LockNext]_vars

InformerNext ==
    \E h \in InformerHandlers :
      \/ RunInformer(h)
      \/ WaitForCacheSync(h)
      \/ InformerSyncs(h)
      \/ InformerNotifies(h)
      \/ CloseStopCh(h)
      \/ InformerStops(h)

SpecInformer == Init /\ [][InformerNext]_vars

ApplyNext ==
    \/ ClusterRoleApply
    \/ ApplyDone

SpecApply == Init /\ [][ApplyNext]_vars

(* ---------------------------------------------------------------------- *)
(* Properties of the watch loop                                            *)
(* ---------------------------------------------------------------------- *)
\* watchNamespace has been entered (WatchByField may return before it)
InWatchNamespace == fns # NoFns

\* the events the range loop has taken off the channels so far
Consumed == SubSeq(sent, 1, Len(sent) - Len(chan))

CallbackEvents == {"ADDED", "MODIFIED", "DELETED"}

\* the callback parameter an event type belongs to
ParamOf(type) ==
    IF type = "ADDED" THEN "addFunc"
    ELSE IF type = "MODIFIED" THEN "modifyFunc" ELSE "deleteFunc"

\* one call per Added/Modified/Deleted event, in the order of evs, of the
\* function f binds to the event's parameter
RECURSIVE ExpectedCalls(_, _)
ExpectedCalls(evs, f) ==
    IF evs = <<>> THEN <<>>
    ELSE LET ev == Head(evs)
             rest == ExpectedCalls(Tail(evs), f)
         IN IF ev.type \in CallbackEvents
               THEN << [fn |-> f[ParamOf(ev.type)], obj |-> ev.obj] >> \o rest
               ELSE rest

\* C1: in watchNamespace every close of the event channel is followed by a
\* new Watch call with the same list options, however many closes there
\* were; the function returns only after a Watch call failed, and returns
\* exactly that call's error.
C1_ReconnectForever ==
    InWatchNamespace =>
      /\ \A i \in DOMAIN watchLog : watchLog[i] = listOptions
      /\ (wpc = "open") => Len(watchLog) = closes
      /\ (wpc = "recv" /\ closed) => Len(watchLog) = closes
      /\ (wpc = "recv" /\ ~closed) => Len(watchLog) = closes + 1
      /\ (wpc = "returned") =>
            /\ Len(watchLog) = closes + 1
            /\ openErr \in WatchErrors
            /\ retErr = openErr

\* two closes were each followed by a reconnect, and the third Watch call
\* failed and ended the function
C1_Witness ==
    /\ InWatchNamespace
    /\ wpc = "returned"
    /\ closes = 2
    /\ Len(watchLog) = 3
    /\ retErr = "errTimeout"

\* C2: the callbacks made so far are exactly one call per consumed Added,
\* Modified or Deleted event, in channel order, of the function that
\* watchNamespace received for that type and with the event's object;
\* Bookmark and Error events cause no call.
C2_DispatchInOrder ==
    InWatchNamespace => calls = ExpectedCalls(Consumed, fns)

\* three events consumed across a reconnect: a bookmark that caused no
\* call, then a Deleted and an Added event that caused one call each
C2_Witness ==
    /\ InWatchNamespace
    /\ closes >= 1
    /\ chan = <<>>
    /\ Len(sent) = 3
    /\ sent[1].type = "BOOKMARK"
    /\ sent[2].type = "DELETED"
    /\ sent[3].type = "ADDED"
    /\ Len(calls) = 2
    /\ calls[1].obj = sent[2].obj
    /\ calls[2].obj = sent[3].obj

\* C3: through Watch(addFunc, modifyFunc, deleteFunc) every Added event
\* calls the caller's addFunc, every Modified event the caller's modifyFunc
\* and every Deleted event the caller's deleteFunc.
C3_WatchCallsCallerFns ==
    entry = "Watch" => calls = ExpectedCalls(Consumed, CallerFns)

(* ---------------------------------------------------------------------- *)
(* Properties of Patch                                                     *)
(* ---------------------------------------------------------------------- *)
\* the bytes of a file-path or raw-bytes patch, and their JSON
PatchBytes ==
    IF pCall.in.shape = "string" THEN ReadFile(pCall.in.path)
    ELSE [err |-> "nil", data |-> pCall.in.data]
PatchJSON == ToJSON(PatchBytes.data)
BytePatchCall(h) ==
    pCall.handler = h /\ pCall.in.shape \in ByteShapes
BytePatchReadable(h) ==
    BytePatchCall(h) /\ PatchBytes.err = "nil" /\ PatchJSON.err = "nil"

\* a modified-object patch whose conversion to the typed object succeeded
ObjectPatchCall ==
    /\ pCall.handler \in PatchHandlers
    /\ pCall.in.shape \in ObjectShapes
    /\ pCall.in.conv
PatchDiff == CreateTwoWayMergePatch(pCall.original, pCall.in.obj)

FirstOption ==
    IF pCall.patchOptions = << >> THEN "none" ELSE pCall.patchOptions[1]

\* the patch semantics an option selects; strategic merge is the default
SelectedType(opt) ==
    IF opt = "JSONPatchType" THEN "JSONPatchType"
    ELSE IF opt = "MergePatchType" THEN "MergePatchType"
    ELSE "StrategicMergePatchType"

\* exactly one request was sent: for original.Name, of type ptype, with
\* the data and the handler's patch options
OnePatchRequest(ptype, data) ==
    pReqs = << [resource |-> pCall.handler, name |-> pCall.original.name,
                ptype |-> ptype, data |-> data, options |-> pCall.po] >>

EmptyPatch(data) == data = "" \/ data = "{}"

\* C4 as claimed: the clusterrole Patch of a file path or raw bytes (that
\* read and convert) sends exactly one request, of the type the first
\* option selects, for original.Name and with the handler's patch options.
C4_AlwaysOneRequest ==
    BytePatchReadable("clusterrole") =>
        OnePatchRequest(SelectedType(FirstOption), PatchJSON.json)

\* C4 amended: that request is sent unless the option selects strategic
\* merge or JSON merge and the patch is empty ("{}"); then, and when the
\* file does not read or the bytes do not convert, no request is sent.
C4_OneRequestUnlessEmpty ==
    BytePatchCall("clusterrole") =>
        IF BytePatchReadable("clusterrole")
           THEN IF FirstOption = "JSONPatchType" \/ ~EmptyPatch(PatchJSON.json)
                   THEN OnePatchRequest(SelectedType(FirstOption), PatchJSON.json)
                   ELSE pReqs = << >> /\ pRet = [obj |-> "original", err |-> "nil"]
           ELSE pReqs = << >> /\ pRet.err # "nil"

\* a YAML file patched with MergePatchType: one JSON-merge-patch request
C4_Witness ==
    /\ BytePatchReadable("clusterrole")
    /\ pCall.in.path = "patch.yaml"
    /\ FirstOption = "MergePatchType"
    /\ Len(pReqs) = 1
    /\ pReqs[1].ptype = "MergePatchType"
    /\ pReqs[1].data = "{rules:r2}"

\* C5: the persistentvolume Patch of raw bytes or a file path with option
\* MergePatchType sends the non-empty patch as a JSON merge patch.
C5_PVMergeUsesMergeType ==
    ( /\ BytePatchReadable("persistentvolume")
      /\ FirstOption = "MergePatchType"
      /\ ~EmptyPatch(PatchJSON.json) )
    => OnePatchRequest("MergePatchType", PatchJSON.json)

\* C6 as claimed: a modified object's (non-empty) diff is sent with the
\* semantics the first option selects, for each of strategic merge, JSON
\* merge and JSON patch, and with strategic merge when no option is given.
C6_DiffUsesSelectedType ==
    ( /\ ObjectPatchCall
      /\ ~EmptyPatch(PatchDiff)
      /\ FirstOption \in {"none", "StrategicMergePatchType", "MergePatchType",
                          "JSONPatchType"} )
    => OnePatchRequest(SelectedType(FirstOption), PatchDiff)

\* C6 amended: the non-empty diff is sent as a JSON merge patch when the
\* first option is MergePatchType and as a strategic merge patch with any
\* other option (JSONPatchType too) or none; an empty diff sends nothing.
C6_DiffMergeOrStrategic ==
    ObjectPatchCall =>
        IF EmptyPatch(PatchDiff)
           THEN pReqs = << >> /\ pRet = [obj |-> "original", err |-> "nil"]
           ELSE OnePatchRequest(IF FirstOption = "MergePatchType"
                                   THEN "MergePatchType"
                                   ELSE "StrategicMergePatchType", PatchDiff)

\* an unstructured modified object patched with MergePatchType on the
\* persistentvolume handler: its diff went out as a JSON merge patch
C6_Witness ==
    /\ ObjectPatchCall
    /\ pCall.handler = "persistentvolume"
    /\ pCall.in.shape = "unstructured"
    /\ FirstOption = "MergePatchType"
    /\ Len(pReqs) = 1
    /\ pReqs[1].ptype = "MergePatchType"
    /\ pReqs[1].data = "{rules:r2}"

(* ---------------------------------------------------------------------- *)
(* Properties of Delete / Get / Update / Create                            *)
(* ---------------------------------------------------------------------- *)
ByNameHandlers == {"node", "rolebinding", "dynamic", "configmap", "ingress"}

\* Delete or Get was given a string
StringCall ==
    /\ rCall.handler \in ByNameHandlers
    /\ rCall.method \in {"Delete", "Get"}
    /\ rCall.in.shape = "string"

\* the one by-name call a string leads to: the string is the name, the
\* namespace is the handler's (none for a cluster-scoped resource)
ByNameCall ==
    rApi = << [verb |-> IF rCall.method = "Get" THEN "get" ELSE "delete",
               resource |-> CASE rCall.handler = "node" -> "nodes"
                              [] rCall.handler = "rolebinding" -> "rolebindings"
                              [] rCall.handler = "configmap" -> "configmaps"
                              [] rCall.handler = "ingress" -> "ingresses"
                              [] OTHER -> rCall.gvk,
               ns |-> IF rCall.handler = "node"
                         \/ (rCall.handler = "dynamic" /\ rCall.gvk \in ClusterKinds)
                         THEN "" ELSE rCall.hns,
               name |-> rCall.in.str] >>

\* a file is read only by an explicit ...FromFile call
ReadsOnlyFromFile ==
    (rCall.handler \in ByNameHandlers /\ rReads # {})
        => rCall.method \in {"DeleteFromFile", "GetFromFile"}

\* the REST mapper could not resolve the dynamic handler's GVK
GVKUnresolved ==
    /\ rCall.handler = "dynamic"
    /\ \/ GVKToGVR(rCall.mapper, rCall.gvk).err # "nil"
       \/ IsNamespaced(rCall.mapper, rCall.gvk).err # "nil"

\* C7 as claimed: a string given to Delete (node, rolebinding, dynamic) or
\* Get (configmap, ingress) always leads to exactly one by-name call with
\* the string as the name, and to no file read; files are read only by
\* DeleteFromFile / GetFromFile.
C7_StringAlwaysOneCall ==
    /\ StringCall => (rReads = {} /\ ByNameCall)
    /\ ReadsOnlyFromFile

\* C7 amended: the same, except that the dynamic handler makes no call and
\* returns the REST mapper's error when its GVK does not resolve.
C7_StringIsNameNotFile ==
    /\ StringCall =>
         /\ rReads = {}
         /\ IF GVKUnresolved
               THEN rApi = << >> /\ rRet = "errNoKindMatch"
               ELSE ByNameCall
    /\ ReadsOnlyFromFile

\* the rolebinding Delete of "web.yaml", a file that exists: the file is
\* not read and the rolebinding named "web.yaml" is deleted
C7_Witness ==
    /\ StringCall
    /\ rCall.handler = "rolebinding"
    /\ rCall.in.str = "web.yaml"
    /\ ReadFile("web.yaml").err = "nil"
    /\ rReads = {}
    /\ Len(rApi) = 1
    /\ rApi[1].name = "web.yaml"
    /\ rApi[1].ns = rCall.hns

NamespacedHandlers == {"rolebinding", "configmap", "ingress", "deployment",
                       "daemonset", "persistentvolumeclaim"}

\* C8: every create / update / delete / get call of a handler made for
\* namespace N targets namespace N, whatever namespace the object carries.
C8_OnlyHandlerNamespace ==
    rCall.handler \in NamespacedHandlers =>
        \A i \in DOMAIN rApi : rApi[i].ns = rCall.hns

(* ---------------------------------------------------------------------- *)
(* Properties of WithNamespace, DeepCopy and the setters                   *)
(* ---------------------------------------------------------------------- *)
\* C9: WithNamespace and the setters change no handler but the one they
\* return or are called on: the namespace and the options of every other
\* handler, the receiver of WithNamespace and the original included, are
\* after the call what they were before it.
C9_ReceiverUnchanged ==
    [][ \A h \in Allocated :
          (op'.target # h) =>
             /\ hs'[h].namespace = hs[h].namespace
             /\ os'[hs'[h].opts] = os[hs[h].opts] ]_vars

\* a setter was called on the handler WithNamespace returned: the copy
\* has its own namespace and limit, the original still has its own
C9_Witness ==
    /\ op.name = "SetLimit"
    /\ op.target = 2
    /\ hs[1].alloc /\ hs[2].alloc
    /\ hs[1].namespace = "ns1"
    /\ hs[2].namespace = "ns2"
    /\ os[hs[2].opts].listLimit = "100"
    /\ os[hs[1].opts].listLimit = "0"

\* C10: the handler WithNamespace returns has, in every option (delete
\* options included), the value the receiver has.
C10_CopyKeepsEveryOption ==
    op.name = "WithNamespace" =>
        os[hs[op.target].opts] = os[hs[op.from].opts]

(* ---------------------------------------------------------------------- *)
(* Properties of WithDryRun                                                *)
(* ---------------------------------------------------------------------- *)
\* the five DryRun fields of a HandlerOptions are all [All]
DryRunAll(o) ==
    /\ o.createDryRun = "All"
    /\ o.updateDryRun = "All"
    /\ o.deleteDryRun = "All"
    /\ o.patchDryRun = "All"
    /\ o.applyDryRun = "All"

\* C11: every WithDryRun step returns a newly allocated handler whose
\* create, update, delete, patch and apply options all carry DryRun = [All],
\* and leaves the receiver's namespace and options as they were.
C11_WithDryRunAllDry ==
    [][(op'.name = "WithDryRun" /\ op'.target \notin Allocated) =>
          /\ op'.target # op'.from
          /\ hs'[op'.target].opts # hs[op'.from].opts
          /\ DryRunAll(os'[hs'[op'.target].opts])
          /\ hs'[op'.from] = hs[op'.from]
          /\ os'[hs'[op'.from].opts] = os[hs[op'.from].opts]]_vars

\* WithDryRun has returned a dry-run handler from a receiver that is not a
\* dry-run handler and that carries a list timeout of its own
C11_Witness ==
    /\ op.name = "WithDryRun"
    /\ DryRunAll(os[hs[op.target].opts])
    /\ os[hs[op.from].opts].createDryRun = "nil"
    /\ os[hs[op.from].opts].deleteDryRun = "nil"
    /\ os[hs[op.from].opts].listTimeout = "30"

(* ---------------------------------------------------------------------- *)
(* Properties of New                                                       *)
(* ---------------------------------------------------------------------- *)
\* the configuration the documented precedence selects: the kubeconfig
\* argument, else KUBECONFIG, else $HOME/.kube/config if it exists, else
\* the in-cluster configuration
DocumentedChoice(kubeconfig) ==
    IF kubeconfig # "" THEN [kind |-> "file", path |-> kubeconfig]
    ELSE IF kubeconfigEnv # "" THEN [kind |-> "file", path |-> kubeconfigEnv]
    ELSE IF RecommendedHomeFile \in files
            THEN [kind |-> "file", path |-> RecommendedHomeFile]
    ELSE [kind |-> "inCluster", path |-> ""]

\* C12: cronjob.New takes its configuration from the kubeconfig argument if
\* non-empty, else from the KUBECONFIG file, else from $HOME/.kube/config if
\* it exists, else from the in-cluster configuration; with none of the
\* three files it builds the handler from the in-cluster configuration.
C12_ConfigPrecedence ==
    (nCall.pkg = "cronjob") =>
        /\ nRet.config.kind = DocumentedChoice(nCall.first).kind
        /\ nRet.config.path = DocumentedChoice(nCall.first).path
        /\ (DocumentedChoice(nCall.first).kind = "inCluster" /\ inCluster)
              => nRet.err = "nil"

\* C13: deployment.New(ctx, "", namespace) as the README writes it builds
\* the handler from the in-cluster configuration, reads no kubeconfig file
\* and scopes the handler to the namespace given.
C13_ReadmeInsideCluster ==
    (nCall.form = "README") =>
        /\ nRet.config.kind = "inCluster"
        /\ nRet.config.reads = {}
        /\ (nRet.err = "nil") => nRet.namespace = nCall.second

(* ---------------------------------------------------------------------- *)
(* Properties of the setters' locking                                      *)
(* ---------------------------------------------------------------------- *)
\* C14: every write of a setter (setNamespace / resetNamespace, SetTimeout,
\* SetLimit, SetForceDelete, SetPropagationPolicy) to the handler's
\* namespace or Options is made while the writing goroutine holds the
\* handler's mutex.
C14_WritesUnderMutex == (gw # NoWrite) => gw.held

(* ---------------------------------------------------------------------- *)
(* Properties of RunInformer                                               *)
(* ---------------------------------------------------------------------- *)
\* C15: RunInformer registers the three callbacks, starts the informer and
\* returns only after stopCh is closed and the informer has stopped: it has
\* not returned while stopCh is open.
C15_ReturnsAfterStop ==
    \A h \in InformerHandlers :
      (ipc[h] \in {"returned", "returned unsynced"}) =>
          /\ ifns[h] = ResourceEventHandlerFuncs("addFunc", "updateFunc",
                                                 "deleteFunc")
          /\ stopCh[h] = "closed"

(* ---------------------------------------------------------------------- *)
(* Properties of Apply                                                     *)
(* ---------------------------------------------------------------------- *)
\* the manifest of a clusterrole, as bytes
ManifestOf(cr) ==
    IF cr.rules = "r1" THEN "name: admin, rules: r1" ELSE "{name:admin,rules:r2}"

\* Apply was given the clusterrole as a typed object, an unstructured
\* object or a map, and the object converted
ObjectApplyCall ==
    /\ aCall.in.shape \in {"ptr", "value", "objectPtr", "objectUnstructured",
                            "unstructuredValue", "map"}
    /\ aCall.in.conv

\* C16: Apply given a clusterrole as an object returns the pair that Apply
\* given the bytes of the same clusterrole returns against the same server,
\* and that pair is the result of the last SDK call the Apply made.
C16_ApplyShapesAgree ==
    ObjectApplyCall =>
        LET b == ApplyFromBytes(ManifestOf(aCall.in.cr), aCall.srv) IN
        /\ aRet.obj = b.obj
        /\ aRet.err = b.err
        /\ aRet.obj = aApi[Len(aApi)].obj
        /\ aRet.err = aApi[Len(aApi)].err

(* ---------------------------------------------------------------------- *)
(* Properties of the delegation to the SDK                                 *)
(* ---------------------------------------------------------------------- *)
\* a call of Create (persistentvolumeclaim), Update (deployment,
\* daemonset), Delete (node) or Get (configmap)
DelegatingCall ==
    \/ rCall.handler = "persistentvolumeclaim" /\ rCall.method = "Create"
    \/ rCall.handler \in {"deployment", "daemonset"} /\ rCall.method = "Update"
    \/ rCall.handler = "node" /\ rCall.method = "Delete"
    \/ rCall.handler = "configmap" /\ rCall.method = "Get"

\* the SDK verb of the method called
VerbOf(method) ==
    CASE method = "Create" -> "create"
      [] method = "Update" -> "update"
      [] method = "Get" -> "get"
      [] OTHER -> "delete"

\* the argument does not normalize: an unsupported type, a runtime.Object
\* of another kind, a map that does not convert, bytes that do not parse,
\* or (Create and Update, which take a string for a file) a file that
\* cannot be read or does not parse
NormalizationFails ==
    \/ rCall.in.shape \in {"other", "unstructured", "otherObject",
                            "unstructuredPtr"}
    \/ rCall.in.shape = "map" /\ ~rCall.in.conv
    \/ rCall.in.shape = "bytes" /\ Decode(rCall.in.data).err # "nil"
    \/ /\ rCall.in.shape = "string"
       /\ rCall.method \in {"Create", "Update"}
       /\ \/ ReadFile(rCall.in.str).err # "nil"
          \/ Decode(ReadFile(rCall.in.str).data).err # "nil"

\* C17: a call of Create (persistentvolumeclaim), Update (deployment,
\* daemonset), Delete (node) or Get (configmap) whose argument normalizes
\* makes exactly one call of its SDK verb and returns that call's object
\* and error as they are; one whose argument does not normalize makes no
\* SDK call and returns an error.
C17_OneSdkCall ==
    DelegatingCall =>
        IF NormalizationFails
           THEN /\ rApi = << >>
                /\ rSdk = << >>
                /\ rRet # "nil"
                /\ rObj = "nil"
           ELSE /\ Len(rApi) = 1
                /\ rApi[1].verb = VerbOf(rCall.method)
                /\ Len(rSdk) = 1
                /\ rRet = rSdk[1].err
                /\ rObj = rSdk[1].obj

\* Update was given the bytes of a manifest and the server refused the
\* one update call: the server's error is what Update returned
C17_Witness ==
    /\ DelegatingCall
    /\ rCall.method = "Update"
    /\ rCall.in.shape = "bytes"
    /\ ~NormalizationFails
    /\ Len(rApi) = 1
    /\ rSdk[1].err = "errNotFound"
    /\ rRet = "errNotFound"

(* ---------------------------------------------------------------------- *)
(* Properties of the dynamic handler's delete                              *)
(* ---------------------------------------------------------------------- *)
\* the function the dynamic handler's call hands its argument to
DynRoute ==
    IF rCall.method = "DeleteFromFile" THEN "FromFile"
    ELSE dynamic_DeleteRoute(rCall.in.shape)

\* a delete of the dynamic handler whose argument is a name or normalizes
\* to an object
DynamicDeleteCall ==
    /\ rCall.handler = "dynamic"
    /\ DynRoute # "ErrType"
    /\ (DynRoute # "ByName") => Normalize(DynRoute, rCall.in).err = "nil"

\* the kind, name and namespace of the target: those of the handler's GVK
\* and of the string for DeleteByName, those of the object otherwise
DynTarget ==
    IF DynRoute = "ByName"
       THEN [kind |-> rCall.gvk, name |-> rCall.in.str, namespace |-> ""]
       ELSE Normalize(DynRoute, rCall.in).obj

\* a lookup of the REST mapper failed during the call
ResolutionFails ==
    IF DynRoute = "ByName"
       THEN \/ GVKToGVR(rCall.mapper, rCall.gvk).err # "nil"
            \/ IsNamespaced(rCall.mapper, rCall.gvk).err # "nil"
       ELSE \/ FindGVR(rCall.mapper, DynTarget).err # "nil"
            \/ FindGVK(rCall.mapper, DynTarget).err # "nil"
            \/ IsNamespaced(rCall.mapper, DynTarget.kind).err # "nil"

\* C18: the dynamic handler's delete returns the REST mapper's error and
\* makes no call when a lookup fails; otherwise it makes one delete call on
\* the resource of the kind, for a namespaced kind in the object's own
\* namespace if it has one and in the handler's otherwise (DeleteByName:
\* the handler's GVK and namespace), for a cluster-scoped kind with no
\* namespace.
C18_DynamicDeleteResolves ==
    DynamicDeleteCall =>
        IF ResolutionFails
           THEN rApi = << >> /\ rRet = "errNoKindMatch"
           ELSE rApi = << [verb |-> "delete",
                           resource |-> DynTarget.kind,
                           ns |-> IF DynTarget.kind \in ClusterKinds THEN ""
                                  ELSE IF DynTarget.namespace # ""
                                          THEN DynTarget.namespace
                                          ELSE rCall.hns,
                           name |-> DynTarget.name] >>

\* the handler made for "ns1" is given a namespaced object of "ns2" and
\* deletes it in "ns2"
C18_Witness ==
    /\ DynamicDeleteCall
    /\ DynRoute = "FromObject"
    /\ ~ResolutionFails
    /\ rCall.hns = "ns1"
    /\ DynTarget.kind \in NamespacedKinds
    /\ DynTarget.namespace = "ns2"
    /\ Len(rApi) = 1
    /\ rApi[1].ns = "ns2"

====
